---- MODULE Spec2Model ----
(***************************************************************************)
(* Resource-tree orchestration core of takos-call (src/room-manager.ts,    *)
(* second revision starting at line 382): RoomManager -> Room -> Peer ->   *)
(* transports / producers / consumers, with the event re-emission chain    *)
(* Peer -> Room -> RoomManager, driven by the MessageHandler of            *)
(* src/config.ts.                                                          *)
(*                                                                         *)
(* Scheduling.  The server is one Node.js event loop.  A command runs      *)
(* synchronously up to its first await.  An await on an engine call        *)
(* (createRouter, createWebRtcTransport, produce, consume, resume) is      *)
(* resumed in a later macrotask, when the engine answers.  An await on a   *)
(* promise that is already settled (await peer.close(), await              *)
(* room.close()) is resumed in the microtask drain of the SAME macrotask:  *)
(* other commands that were dispatched in that macrotask before the drain  *)
(* began may have run their synchronous part, but no new command and no    *)
(* engine answer is handled until the microtask queue is empty.            *)
(***************************************************************************)
EXTENDS Integers, Sequences, FiniteSets, Bags, TLC

\* ---- bounds of the model ------------------------------------------------
MaxObjs     == 5      \* Room objects, Peer objects and engine handles ever made
MaxRoomObjs == 3      \* the same, in the specification of the room lifecycle
MaxInflight == 2      \* commands suspended at an await at the same time
MaxFaults   == 1      \* engine calls that fail (create, resume or close)
MaxCmdObjs  == 5      \* objects ever made, in the specification of the command surface
MaxCmdInflight == 1   \* commands suspended at the same time, in that specification
MaxMsgIds   == 2      \* message ids the client has, in that specification
MaxConns    == 2      \* connections the server accepts (main.ts)
MaxFrames   == 2      \* messages a connection sends to the server
MaxEvents   == 2      \* room events the server broadcasts
MaxSocks    == 2      \* WebSocket objects of a TakosCallClient not yet closed (client.ts)
MaxTimers   == 2      \* reconnect timers of the client pending at the same time
MaxReqs     == 2      \* requests the application issues through the client
MaxClientReqs == 1    \* the same, in the specification of connecting and reconnecting
maxReconnectAttempts == 1   \* config.maxReconnectAttempts of the client under study

RoomIds == {"r1"}
PeerIds == {"p1", "p2"}

RoomObjs == 1..MaxObjs
PeerObjs == 1..MaxObjs
Handles  == 1..MaxObjs

NoId == "-"

VARIABLES
  rooms,     \* RoomManager.rooms : room id -> Room object (0 = no entry)
  room,      \* Room objects: id, router, peers (peer id -> Peer object, 0 = no entry)
  peer,      \* Peer objects: id, room, transports, producers, consumers
  eh,        \* engine handles: kind, open, owner Peer, parent transport, router, ...
  calls,     \* the bag of commands suspended at an await
  draining,  \* the microtask drain of the current macrotask has begun
  faults,    \* engine calls that have failed so far
  cap,       \* how many objects the specification lets the program make
  emitted,   \* events emitted on the RoomManager by the last step, in order
  onRoom,    \* events emitted on a Room by the last step, in order
  closes,    \* close() calls on handles made by the last step, in order, each with
             \* the handles of the same Peer that were open when it was made
  ret,       \* the command completed by the last step and its outcome
  hist,      \* how often each resource event was emitted so far, per handle
  msg,       \* the id of the message whose handler ran in the last step (0: none)
  answer,    \* the data of the response a read command of the last step built
  client,    \* what the clients send: the message ids and the media kinds they use,
             \* and how many commands they keep in flight
  conn,      \* main.ts: the WebSocket connections the server has seen, each with its
             \* credentials, its place in the clients map and its listeners
  tc         \* client.ts: a TakosCallClient, the sockets it made, the promises it
             \* returned and its reconnect timers

vars == <<rooms, room, peer, eh, calls, draining, faults, cap, emitted, onRoom, closes, ret,
          hist, msg, answer, client, conn, tc>>

\* ---- values -------------------------------------------------------------
NoPeers == [p \in PeerIds |-> 0]
NoRoom  == [id |-> NoId, router |-> "null", peers |-> NoPeers]
NoPeer  == [id |-> NoId, room |-> 0, transports |-> {}, producers |-> {}, consumers |-> {}]
NoHandle == [kind |-> "none", open |-> FALSE, owner |-> 0, par |-> 0, rt |-> 0,
             prod |-> 0, paused |-> FALSE, media |-> "none"]
Call    == [op |-> "none", pc |-> "none", rid |-> NoId, pid |-> NoId, ro |-> 0, po |-> 0,
            h |-> 0, k |-> 0, seen |-> {}, id |-> 0, media |-> "none"]
NoRet   == [op |-> "none", rid |-> NoId, pid |-> NoId, out |-> "none", x |-> 0]

EvTypes == {"roomCreated", "roomClosed", "peerAdded", "peerClosed",
            "transportCreated", "transportClosed", "producerCreated", "producerClosed",
            "consumerCreated", "consumerClosed"}
ResTypes == {"transportCreated", "transportClosed", "producerCreated", "producerClosed",
             "consumerCreated", "consumerClosed"}
NoHist == [t \in ResTypes |-> [h \in Handles |-> 0]]

\* data: null in a response.
Null == [isNull |-> TRUE]

\* main.ts: a connection the server has not seen yet.  keyless tells that the
\* request carried the configured key neither as url.searchParams.get("api_key")
\* nor as request.headers["api-key"]; frames counts the messages the remote end
\* has sent, handled the commands run for it, events the events sent to it.
Conns == 1..MaxConns
Absent == "<absent>"
NoConn == [readyState |-> "none", keyless |-> FALSE, inClients |-> FALSE,
           onMessage |-> FALSE, onClose |-> FALSE, frames |-> 0, handled |-> 0,
           events |-> 0]
NoConns == [c \in Conns |-> NoConn]

\* client.ts: a TakosCallClient after its constructor.  ws is the socket in
\* this.ws (0: null); sock holds the WebSockets the client has made (a closed
\* one that this.ws no longer names is garbage and gives its place back), each
\* with whether the connect() promise whose handlers it carries is pending and
\* the request whose reject is chained to that promise (0: none); promise holds
\* the promise of each request and what settled it; log lists the send()
\* calls, each with the readyState of the socket it was made on; manual is set
\* by disconnect() and reset by connect() and by a request; exc tells that
\* the last handler threw; last is the handler that ran last; autoReconnect is
\* config.autoReconnect; reqs is how many requests the application issues.
Socks  == 1..MaxSocks
ReqIds == 1..(MaxReqs + MaxClientReqs)
NoSock == [readyState |-> "none", pending |-> FALSE, waiter |-> 0]
NoPromise == [state |-> "none", by |-> "none"]
NoStep == [op |-> "none", id |-> 0, success |-> FALSE]
NoClient == [ws |-> 0, connected |-> FALSE, reconnectAttempts |-> 0, messageQueue |-> <<>>,
             messageIdCounter |-> 0, pendingRequests |-> {},
             sock |-> [s \in Socks |-> NoSock], promise |-> [r \in ReqIds |-> NoPromise],
             timers |-> 0, log |-> <<>>, manual |-> FALSE, exc |-> FALSE, last |-> NoStep,
             autoReconnect |-> TRUE, reqs |-> 0]

\* The program state an operation works on, with the effects of the step so far:
\* out = events emitted on the RoomManager, rout = events emitted on a Room,
\* cl = engine close() calls, err = the exception thrown.
Cur == [rooms |-> rooms, room |-> room, peer |-> peer, eh |-> eh,
        out |-> <<>>, rout |-> <<>>, cl |-> <<>>, err |-> "none", data |-> Null]

Min(S) == CHOOSE x \in S : \A y \in S : x <= y

\* ---- lookups ------------------------------------------------------------
\* RoomManager.findRoom / Room.findPeer / Peer.findTransport...: 0 stands for null.
findRoom(s, rid) == s.rooms[rid]
findPeer(s, ro, pid) == s.room[ro].peers[pid]
findTransport(s, po, x) == IF x \in s.peer[po].transports THEN x ELSE 0
findProducer(s, po, x) == IF x \in s.peer[po].producers THEN x ELSE 0
findConsumer(s, po, x) == IF x \in s.peer[po].consumers THEN x ELSE 0

\* RoomManager.getRoom / Room.getPeer / Peer.getTransport...: the strict lookups
\* read the same maps and throw "... not found" where findX returns null.
Throws == -1
getRoomAny(s, rid) ==
  IF \E o \in RoomObjs : s.room[o].id = rid
  THEN Min({o \in RoomObjs : s.room[o].id = rid}) ELSE Throws
getRoom(s, rid) == IF s.rooms[rid] = 0 THEN Throws ELSE s.rooms[rid]
getPeer(s, ro, pid) == IF s.room[ro].peers[pid] = 0 THEN Throws ELSE s.room[ro].peers[pid]
getTransportAny(s, po, x) == x
getTransport(s, po, x) == IF x \in s.peer[po].transports THEN x ELSE Throws
getProducerAny(s, po, x) == x
getProducer(s, po, x) == IF x \in s.peer[po].producers THEN x ELSE Throws
getConsumer(s, po, x) == IF x \in s.peer[po].consumers THEN x ELSE Throws

KindOf(type) == IF type \in {"transportCreated", "transportClosed"} THEN "transport"
                ELSE IF type \in {"producerCreated", "producerClosed"} THEN "producer"
                ELSE IF type \in {"consumerCreated", "consumerClosed"} THEN "consumer"
                ELSE IF type \in {"peerAdded", "peerClosed"} THEN "peer" ELSE "room"

\* What a subscriber that receives the event finds when it looks the addressed
\* entity up through the registry at that moment (findRoom, findPeer, findX).
Lookup(s, type, rid, pid, x) ==
  LET ro == findRoom(s, rid)
      po == IF ro = 0 \/ pid = NoId THEN 0 ELSE findPeer(s, ro, pid)
      k  == KindOf(type)
  IN IF k = "room" THEN ro # 0
     ELSE IF k = "peer" THEN po # 0
     ELSE IF po = 0 THEN FALSE
     ELSE IF k = "transport" THEN findTransport(s, po, x) # 0
     ELSE IF k = "producer" THEN findProducer(s, po, x) # 0
     ELSE findConsumer(s, po, x) # 0

\* ---- event re-emission chain ---------------------------------------------
\* The events RoomManager.createRoom subscribes to on a Room and re-emits.
ManagerForwards == {"roomClosed", "peerClosed", "transportClosed", "producerClosed",
                    "consumerClosed", "transportCreated", "producerCreated",
                    "consumerCreated"}

\* The payload object of an event is a function from field names to values.
NoData == [k \in {} |-> 0]

\* { tag, ...data }: the fields of data win over the tag the listener adds.
Spread(tag, data) == data @@ tag

\* The field of an event that carries the id of the resource it is about.
IdField(type) == IF KindOf(type) = "transport" THEN "transportId"
                 ELSE IF KindOf(type) = "producer" THEN "producerId"
                 ELSE IF KindOf(type) = "consumer" THEN "consumerId" ELSE "none"

\* this.emit(type, data) on the RoomManager.  The event is recorded with the
\* address its payload carries; ro/po name the Room and Peer objects it came
\* from; found is what a lookup of that address finds at that moment.
ManagerEmit(s, type, data, ro, po) ==
  LET rid == data["roomId"]
      pid == IF "peerId" \in DOMAIN data THEN data["peerId"] ELSE NoId
      x   == IF IdField(type) \in DOMAIN data THEN data[IdField(type)] ELSE 0
  IN [s EXCEPT !.out = Append(@, [type |-> type, roomId |-> rid, peerId |-> pid,
                                  x |-> x, ro |-> ro, po |-> po,
                                  found |-> Lookup(s, type, rid, pid, x)])]

\* this.emit(type, data) on a Room: reaches the RoomManager only through the
\* listeners createRoom registered, which emit { roomId, ...data }.
RoomEmit(s, ro, type, data, po) ==
  LET s1 == [s EXCEPT !.rout = Append(@, [type |-> type, ro |-> ro,
                 peerId |-> IF "peerId" \in DOMAIN data THEN data["peerId"] ELSE NoId])]
  IN IF type \in ManagerForwards
     THEN ManagerEmit(s1, type, Spread("roomId" :> s.room[ro].id, data), ro, po)
     ELSE s1

\* The payload a Peer emits with an event about handle x (none with "close").
PeerPayloadTagged(s, type, x) == (IdField(type) :> x) @@ ("peerId" :> NoId)
PeerPayload(s, type, x) ==
  IF type = "peerClosed" THEN NoData
  ELSE IF type = "transportCreated"
  THEN ("transportId" :> x) @@ ("direction" :> 0) @@ ("transportInfo" :> x)
  ELSE IF type = "producerCreated"
  THEN ("producerId" :> x) @@ ("transportId" :> s.eh[x].par) @@ ("kind" :> s.eh[x].media)
       @@ ("producerInfo" :> x)
  ELSE IF type = "consumerCreated"
  THEN ("consumerId" :> x) @@ ("producerId" :> s.eh[x].prod)
       @@ ("transportId" :> s.eh[x].par) @@ ("consumerInfo" :> x)
  ELSE (IdField(type) :> x)

\* this.emit(type, data) on a Peer: the listeners Room.addPeer registered emit
\* { peerId, ...data } on the Room the Peer was constructed in.
PeerEmit(s, po, type, x) ==
  RoomEmit(s, s.peer[po].room, type,
           Spread("peerId" :> s.peer[po].id, PeerPayload(s, type, x)), po)

\* ---- the engine's handles and the listeners registered on them ------------
ClosedType(kind) == IF kind = "transport" THEN "transportClosed"
                    ELSE IF kind = "producer" THEN "producerClosed" ELSE "consumerClosed"

MapOf(s, po, kind) == IF kind = "transport" THEN s.peer[po].transports
                      ELSE IF kind = "producer" THEN s.peer[po].producers
                      ELSE s.peer[po].consumers

\* this.transports.delete(id) / this.producers.delete(id) / this.consumers.delete(id)
MapDelete(s, po, kind, h) ==
  IF kind = "transport" THEN [s EXCEPT !.peer[po].transports = @ \ {h}]
  ELSE IF kind = "producer" THEN [s EXCEPT !.peer[po].producers = @ \ {h}]
  ELSE [s EXCEPT !.peer[po].consumers = @ \ {h}]

\* 'routerclose' on a transport, 'transportclose' on a producer or consumer:
\* the entry is deleted and nothing is emitted.
OnParentClose(s, h) == MapDelete(s, s.eh[h].owner, s.eh[h].kind, h)

\* '@close': the entry is deleted and transportClosed / producerClosed /
\* consumerClosed is emitted on the Peer.
OnClose(s, h) ==
  PeerEmit(MapDelete(s, s.eh[h].owner, s.eh[h].kind, h), s.eh[h].owner,
           ClosedType(s.eh[h].kind), h)

\* The open producers and consumers the engine holds on transport t.
Children(s, t) == {c \in Handles : /\ s.eh[c].kind \in {"producer", "consumer"}
                                   /\ s.eh[c].par = t /\ s.eh[c].open}

\* The engine closes the handles of S because their parent closed.
RECURSIVE ParentClosed(_, _)
ParentClosed(s, S) ==
  IF S = {} THEN s
  ELSE LET h == Min(S)
       IN ParentClosed(OnParentClose([s EXCEPT !.eh[h].open = FALSE], h), S \ {h})

\* The handles a Peer made that the engine still holds open.
OpenOf(s, po) == {h \in Handles : s.eh[h].owner = po /\ s.eh[h].open}

\* consumer.close() / producer.close() / transport.close().  fail names the handle
\* whose close throws (0: none).  A closed handle ignores the call; closing a
\* transport closes its producers and consumers ('transportclose') first.
HandleClose(s, h, fail) ==
  LET s0 == [s EXCEPT !.cl = Append(@, [h |-> h, open |-> OpenOf(s, s.eh[h].owner)])]
  IN IF h = fail THEN [s0 EXCEPT !.err = "EngineError"]
     ELSE IF ~s.eh[h].open THEN s0
     ELSE LET s1 == [s0 EXCEPT !.eh[h].open = FALSE]
              s2 == IF s.eh[h].kind = "transport"
                    THEN ParentClosed(s1, Children(s1, h)) ELSE s1
          IN OnClose(s2, h)

\* The open transports the engine holds on the router of Room ro.
RouterTransports(s, ro) == {t \in Handles : /\ s.eh[t].kind = "transport"
                                           /\ s.eh[t].rt = ro /\ s.eh[t].open}
RouterChildren(s, ro) == UNION {Children(s, t) : t \in RouterTransports(s, ro)}

\* if (this.router) this.router.close(): the engine closes the router's transports
\* ('routerclose') and their producers and consumers ('transportclose').
RouterClose(s, ro, rfail) ==
  IF s.room[ro].router = "null" THEN s
  ELSE IF rfail THEN [s EXCEPT !.err = "EngineError"]
  ELSE IF s.room[ro].router = "closed" THEN s
  ELSE ParentClosed([s EXCEPT !.room[ro].router = "closed"],
                    RouterTransports(s, ro) \cup RouterChildren(s, ro))

\* ---- Peer.close ----------------------------------------------------------
\* for (const x of this.<kind>.values()) x.close(): the Map iterator visits the
\* entries in insertion order, which is the order of the handle numbers, and skips
\* an entry a listener deleted before it was reached.
RECURSIVE CloseEach(_, _, _, _, _)
CloseEach(s, po, kind, k, fail) ==
  LET m == {h \in MapOf(s, po, kind) : h > k}
  IN IF s.err # "none" \/ m = {} THEN s
     ELSE CloseEach(HandleClose(s, Min(m), fail), po, kind, Min(m), fail)

PeerCloseTransportsFirst(s, po, fail) ==
  LET s1 == CloseEach(s, po, "transport", 0, fail)
      s2 == CloseEach(s1, po, "producer", 0, fail)
      s3 == CloseEach(s2, po, "consumer", 0, fail)
  IN IF s3.err # "none" THEN s3
     ELSE PeerEmit([s3 EXCEPT !.peer[po].consumers = {}, !.peer[po].producers = {},
                              !.peer[po].transports = {}], po, "peerClosed", 0)

PeerClose(s, po, fail) ==
  LET s1 == CloseEach(s, po, "consumer", 0, fail)
      s2 == CloseEach(s1, po, "producer", 0, fail)
      s3 == CloseEach(s2, po, "transport", 0, fail)
  IN IF s3.err # "none" THEN s3
     ELSE PeerEmit([s3 EXCEPT !.peer[po].consumers = {}, !.peer[po].producers = {},
                              !.peer[po].transports = {}], po, "peerClosed", 0)

\* ---- bookkeeping of a step -------------------------------------------------
RECURSIVE Tally(_, _)
Tally(hh, es) ==
  IF es = <<>> THEN hh
  ELSE IF Head(es).type \in ResTypes
  THEN Tally([hh EXCEPT ![Head(es).type][Head(es).x] = @ + 1], Tail(es))
  ELSE Tally(hh, Tail(es))

\* The step leaves the program in state s.
Commit(s) ==
  /\ rooms' = s.rooms /\ room' = s.room /\ peer' = s.peer /\ eh' = s.eh
  /\ emitted' = s.out /\ onRoom' = s.rout /\ closes' = s.cl /\ hist' = Tally(hist, s.out)
  /\ faults' = faults + (IF s.err = "EngineError" THEN 1 ELSE 0)
  /\ cap' = cap /\ client' = client /\ answer' = s.data
  /\ conn' = conn /\ tc' = tc

\* The command the step completes, the room and peer it addressed, its outcome.
Ret(op, rid, pid, out) == [op |-> op, rid |-> rid, pid |-> pid, out |-> out, x |-> 0]

\* A command suspends at an await, moves on to its next await, or completes.
\* TakosCallClient.sendRequest gives each request an id of its own: the first of
\* the client's ids that no request in flight has (the first of all, when each
\* is in use).
NextId ==
  LET free == {i \in client.ids : \A rec \in BagToSet(calls) : rec.id # i}
  IN IF free = {} THEN Min(client.ids) ELSE Min(free)

\* socket.on("message"): a message arrives and its handler starts; no message is
\* taken while microtasks are due.
Dispatch == ~draining /\ msg' = NextId
Suspend(rec) == calls' = calls (+) SetToBag({[rec EXCEPT !.id = msg']})
Move(old, rec) ==
  calls' = (calls (-) SetToBag({old})) (+) SetToBag({rec}) /\ msg' = old.id
Resolve(old) == calls' = calls (-) SetToBag({old}) /\ msg' = old.id
Pending == BagToSet(calls)
CanSuspend == BagCardinality(calls) < client.inflight

\* The suspended commands whose awaited promise is already settled resume in the
\* microtask drain of the current macrotask.
Micro(cs) == {rec \in BagToSet(cs) : rec.pc \in {"iter", "delete", "delPeer"}}

\* Objects made so far, and the handles the engine may still return to a
\* suspended create command.
Made == Cardinality({o \in RoomObjs : room[o].id # NoId})
        + Cardinality({o \in PeerObjs : peer[o].id # NoId})
        + Cardinality({h \in Handles : eh[h].kind # "none"})
RECURSIVE Sum(_, _)
Sum(S, b) == IF S = {} THEN 0 ELSE LET x == CHOOSE y \in S : TRUE
                                   IN CopiesIn(x, b) + Sum(S \ {x}, b)
Owed == Sum({rec \in Pending : rec.pc \in {"engine", "consume"}}, calls)
CanMake == Made + Owed < cap
NewRoomObjs == {o \in RoomObjs : room[o].id = NoId}
NewPeerObjs == {o \in PeerObjs : peer[o].id = NoId}
NewHandles  == {h \in Handles : eh[h].kind = "none"}

\* The outcomes of an engine call: the engine is a black box that may fail.
CanFail == faults < MaxFaults
Answers == {TRUE} \cup (IF CanFail THEN {FALSE} ELSE {})
\* The engine call of the step failed.
Failed(s) == [s EXCEPT !.err = "EngineError"]
\* The handles of a Peer whose close() may throw in this step (0: none throws).
PeerFaults(s, po) ==
  {0} \cup (IF CanFail
            THEN {h \in s.peer[po].consumers \cup s.peer[po].producers
                        \cup s.peer[po].transports : s.eh[h].open}
            ELSE {})
RouterFaults(s, ro) ==
  {FALSE} \cup (IF CanFail /\ s.room[ro].router = "open" THEN {TRUE} ELSE {})
CloseFaults(s, x) == {0} \cup (IF CanFail /\ s.eh[x].open THEN {x} ELSE {})

\* ---- RoomManager.createRoom ------------------------------------------------
\* this.rooms.has(roomId)
HasRoomNever(s, rid) == FALSE
HasRoom(s, rid) == s.rooms[rid] # 0

\* new Room(roomId, this.worker, options) and the subscriptions on it.
NewRoomRegistered(s, rid, o) ==
  [s EXCEPT !.room[o] = [NoRoom EXCEPT !.id = rid], !.rooms[rid] = o]
NewRoom(s, rid, o) == [s EXCEPT !.room[o] = [NoRoom EXCEPT !.id = rid]]

\* From the call up to "await room.initialize()": the duplicate check, new Room,
\* the subscriptions, and the createRouter request of Room.initialize.
CreateRoom(rid) ==
  /\ Dispatch
  /\ IF HasRoom(Cur, rid)
     THEN /\ Commit(Cur)
          /\ ret' = Ret("createRoom", rid, NoId, "DuplicateKey")
          /\ UNCHANGED calls
     ELSE /\ CanSuspend /\ CanMake
          /\ LET o == Min(NewRoomObjs)
             IN /\ Commit(NewRoom(Cur, rid, o))
                /\ Suspend([Call EXCEPT !.op = "createRoom", !.pc = "router",
                                        !.rid = rid, !.ro = o])
          /\ ret' = NoRet
  /\ UNCHANGED draining

\* this.router = await this.worker.createRouter(...); this.rooms.set(roomId, room);
\* this.emit("roomCreated", ...)
RegisterNoRouter(s, rid, o) ==
  ManagerEmit([s EXCEPT !.rooms[rid] = o],
              "roomCreated", ("roomId" :> rid) @@ ("roomInfo" :> o), o, 0)
Register(s, rid, o) ==
  ManagerEmit([s EXCEPT !.room[o].router = "open", !.rooms[rid] = o],
              "roomCreated", ("roomId" :> rid) @@ ("roomInfo" :> o), o, 0)

\* The engine answers createRouter.  On success Room.initialize stores the router
\* and createRoom registers the Room and emits roomCreated (the one microtask
\* between the two touches nothing another command can see); on failure the
\* rejection propagates out of createRoom.
CreateRoomAnswer(rec) ==
  /\ Micro(calls) = {}
  /\ rec.op = "createRoom"
  /\ \E ok \in Answers :
       IF ok
       THEN /\ Commit(Register(Cur, rec.rid, rec.ro))
            /\ ret' = Ret("createRoom", rec.rid, NoId, "ok")
       ELSE /\ Commit(Failed(Cur))
            /\ ret' = Ret("createRoom", rec.rid, NoId, "EngineError")
  /\ Resolve(rec)
  /\ UNCHANGED draining

\* ---- Room.close and RoomManager.closeRoom ----------------------------------
PeersOf(s, ro) == {s.room[ro].peers[p] : p \in PeerIds} \ {0}

\* The entry the iterator of this.peers.values() yields after the Peer object k:
\* entries are kept in insertion order, which is the order of the object numbers.
NextPeer(s, ro, k) ==
  LET m == {po \in PeersOf(s, ro) : po > k} IN IF m = {} THEN 0 ELSE Min(m)

\* Room.close from the iterator position k up to its next await, or to its end.
RoomCloseRouterFirst(s, ro, k, fail, rfail) ==
  LET s1 == IF k = 0 THEN RouterClose(s, ro, rfail) ELSE s
  IN IF s1.err # "none" THEN s1
     ELSE IF NextPeer(s1, ro, k) # 0 THEN PeerClose(s1, NextPeer(s1, ro, k), fail)
     ELSE RoomEmit(s1, ro, "roomClosed", NoData, 0)

RoomClose(s, ro, k, fail, rfail) ==
  IF NextPeer(s, ro, k) # 0
  THEN PeerClose(s, NextPeer(s, ro, k), fail)
  ELSE LET s1 == RouterClose(s, ro, rfail)
       IN IF s1.err # "none" THEN s1 ELSE RoomEmit(s1, ro, "roomClosed", NoData, 0)

\* One stretch of closeRoom inside Room.close: old is the suspended command that
\* resumes (Call for a command that starts).
RoomCloseRun(old, rec) ==
  LET np == NextPeer(Cur, rec.ro, rec.k)
  IN \E fail \in (IF np # 0 THEN PeerFaults(Cur, np) ELSE {0}),
        rfail \in (IF np = 0 THEN RouterFaults(Cur, rec.ro) ELSE {FALSE}) :
       LET s == RoomClose(Cur, rec.ro, rec.k, fail, rfail)
           nxt == [rec EXCEPT !.pc = IF np # 0 THEN "iter" ELSE "delete", !.k = np,
                              !.seen = IF np # 0 THEN @ \cup {np} ELSE @]
       IN /\ Commit(s)
          /\ IF s.err # "none"
             THEN /\ ret' = Ret("closeRoom", rec.rid, NoId, s.err)
                  /\ IF old = Call THEN UNCHANGED calls ELSE Resolve(old)
             ELSE /\ ret' = NoRet
                  /\ IF old = Call THEN Suspend(nxt) ELSE Move(old, nxt)

\* const room = this.getRoom(roomId); await room.close(): up to the first await.
CloseRoom(rid) ==
  /\ Dispatch
  /\ IF getRoom(Cur, rid) = Throws
     THEN /\ Commit(Cur)
          /\ ret' = Ret("closeRoom", rid, NoId, "NotFound")
          /\ UNCHANGED calls
     ELSE /\ CanSuspend
          /\ RoomCloseRun(Call, [Call EXCEPT !.op = "closeRoom", !.rid = rid,
                                             !.ro = getRoom(Cur, rid)])
  /\ UNCHANGED draining

\* Room.close resumes after "await peer.close()".
CloseRoomIter(rec) ==
  /\ rec.pc = "iter"
  /\ RoomCloseRun(rec, rec)
  /\ draining' = (Micro(calls') # {})

\* this.rooms.delete(roomId)
DeleteRoomNot(s, rid) == s
DeleteRoom(s, rid) == [s EXCEPT !.rooms[rid] = 0]

\* closeRoom resumes after "await room.close()".
CloseRoomDelete(rec) ==
  /\ rec.pc = "delete"
  /\ Commit(DeleteRoom(Cur, rec.rid))
  /\ ret' = Ret("closeRoom", rec.rid, NoId, "ok")
  /\ Resolve(rec)
  /\ draining' = (Micro(calls') # {})

\* ---- Room.addPeer and Room.removePeer --------------------------------------
\* new Peer(peerId, this), the subscriptions, this.peers.set(peerId, peer),
\* this.emit("peerAdded", ...)
NewPeer(s, ro, pid, po) ==
  RoomEmit([s EXCEPT !.peer[po] = [NoPeer EXCEPT !.id = pid, !.room = ro],
                     !.room[ro].peers[pid] = po],
           ro, "peerAdded", ("peerId" :> pid) @@ ("peerInfo" :> po), po)

\* this.peers.has(peerId)
HasPeerNever(s, ro, pid) == FALSE
HasPeer(s, ro, pid) == s.room[ro].peers[pid] # 0

\* handleAddPeer: getRoom(roomId), then room.addPeer(peerId), which has no await.
AddPeer(rid, pid) ==
  /\ Dispatch
  /\ LET ro == getRoom(Cur, rid)
     IN IF ro = Throws
        THEN Commit(Cur) /\ ret' = Ret("addPeer", rid, pid, "NotFound")
        ELSE IF HasPeer(Cur, ro, pid)
        THEN Commit(Cur) /\ ret' = Ret("addPeer", rid, pid, "DuplicateKey")
        ELSE /\ CanMake
             /\ Commit(NewPeer(Cur, ro, pid, Min(NewPeerObjs)))
             /\ ret' = Ret("addPeer", rid, pid, "ok")
  /\ UNCHANGED <<calls, draining>>

\* The handler's getRoom / getPeer chain: the Peer object the command acts on.
PeerFor(s, rid, pid) ==
  IF getRoom(s, rid) = Throws \/ getPeer(s, getRoom(s, rid), pid) = Throws THEN 0
  ELSE getPeer(s, getRoom(s, rid), pid)

\* handleRemovePeer: getRoom, then Room.removePeer up to "await peer.close()".
\* Peer.close has no await of its own: it runs to its end inside this step.
RemovePeer(rid, pid) ==
  /\ Dispatch
  /\ LET po == PeerFor(Cur, rid, pid)
     IN IF po = 0
        THEN /\ Commit(Cur)
             /\ ret' = Ret("removePeer", rid, pid, "NotFound")
             /\ UNCHANGED calls
        ELSE /\ CanSuspend
             /\ \E fail \in PeerFaults(Cur, po) :
                  LET s == PeerClose(Cur, po, fail)
                  IN /\ Commit(s)
                     /\ IF s.err # "none"
                        THEN /\ ret' = Ret("removePeer", rid, pid, s.err)
                             /\ UNCHANGED calls
                        ELSE /\ ret' = NoRet
                             /\ Suspend([Call EXCEPT !.op = "removePeer",
                                  !.pc = "delPeer", !.rid = rid, !.pid = pid,
                                  !.ro = getRoom(Cur, rid), !.po = po])
  /\ UNCHANGED draining

\* this.peers.delete(peerId)
DeletePeerEmits(s, ro, pid) ==
  RoomEmit([s EXCEPT !.room[ro].peers[pid] = 0], ro, "peerClosed", "peerId" :> pid, 0)
DeletePeer(s, ro, pid) == [s EXCEPT !.room[ro].peers[pid] = 0]

\* removePeer resumes after "await peer.close()".
RemovePeerDelete(rec) ==
  /\ rec.pc = "delPeer"
  /\ Commit(DeletePeer(Cur, rec.ro, rec.pid))
  /\ ret' = Ret("removePeer", rec.rid, rec.pid, "ok")
  /\ Resolve(rec)
  /\ draining' = (Micro(calls') # {})

\* ---- Peer.createTransport --------------------------------------------------
NewHandle(kind, po, par, rt, prod, paused) ==
  [kind |-> kind, open |-> TRUE, owner |-> po, par |-> par, rt |-> rt,
   prod |-> prod, paused |-> paused, media |-> "none"]

\* handleCreateTransport: getRoom, getPeer, then createTransport up to
\* "await router.createWebRtcTransport(...)".
CreateTransport(rid, pid) ==
  /\ Dispatch
  /\ LET po == PeerFor(Cur, rid, pid)
     IN IF po = 0
        THEN /\ ret' = Ret("createTransport", rid, pid, "NotFound")
             /\ UNCHANGED calls
        ELSE IF room[peer[po].room].router = "null"
        THEN /\ ret' = Ret("createTransport", rid, pid, "NotInitialized")
             /\ UNCHANGED calls
        ELSE /\ CanSuspend /\ CanMake
             /\ ret' = NoRet
             /\ Suspend([Call EXCEPT !.op = "createTransport", !.pc = "engine",
                                     !.rid = rid, !.pid = pid, !.po = po])
  /\ Commit(Cur)
  /\ UNCHANGED draining

\* this.transports.set(id, transport), the two listeners, emit transportCreated.
StoreTransportShared(s, po, h) ==
  LET s1 == [s EXCEPT !.eh[h] = NewHandle("transport", po, 0, s.peer[po].room, 0, FALSE),
                      !.peer = [o \in PeerObjs |->
                                 IF s.peer[o].id = NoId THEN s.peer[o]
                                 ELSE [s.peer[o] EXCEPT !.transports = @ \cup {h}]]]
  IN PeerEmit(s1, po, "transportCreated", h)
StoreTransport(s, po, h) ==
  LET s1 == [s EXCEPT !.eh[h] = NewHandle("transport", po, 0, s.peer[po].room, 0, FALSE),
                      !.peer[po].transports = @ \cup {h}]
  IN PeerEmit(s1, po, "transportCreated", h)

\* The engine answers createWebRtcTransport.
CreateTransportAnswer(rec) ==
  /\ Micro(calls) = {}
  /\ rec.op = "createTransport"
  /\ \E ok \in Answers :
       IF ok
       THEN /\ Commit(StoreTransport(Cur, rec.po, Min(NewHandles)))
            /\ ret' = Ret("createTransport", rec.rid, rec.pid, "ok")
       ELSE /\ Commit(Failed(Cur))
            /\ ret' = Ret("createTransport", rec.rid, rec.pid, "EngineError")
  /\ Resolve(rec)
  /\ UNCHANGED draining

\* ---- Peer.createProducer ---------------------------------------------------
\* handleCreateProducer: getRoom, getPeer, getTransport, "await transport.produce".
CreateProducer(rid, pid, t) ==
  /\ Dispatch
  /\ LET po == PeerFor(Cur, rid, pid)
     IN IF po = 0 \/ (po # 0 /\ getTransport(Cur, po, t) = Throws)
        THEN /\ ret' = [Ret("createProducer", rid, pid, "NotFound") EXCEPT !.x = t]
             /\ UNCHANGED calls
        ELSE /\ CanSuspend /\ CanMake
             /\ ret' = NoRet
             /\ \E kind \in client.kinds :
                  Suspend([Call EXCEPT !.op = "createProducer", !.pc = "engine",
                                       !.rid = rid, !.pid = pid, !.po = po, !.h = t,
                                       !.media = kind])
  /\ Commit(Cur)
  /\ UNCHANGED draining

\* this.producers.set(id, producer), the two listeners, emit producerCreated.
StoreProducer(s, po, t, h, kind) ==
  LET s1 == [s EXCEPT !.eh[h] = [NewHandle("producer", po, t, s.eh[t].rt, 0, FALSE)
                                   EXCEPT !.media = kind],
                      !.peer[po].producers = @ \cup {h}]
  IN PeerEmit(s1, po, "producerCreated", h)

\* The engine answers transport.produce.
CreateProducerAnswer(rec) ==
  /\ Micro(calls) = {}
  /\ rec.op = "createProducer"
  /\ \E ok \in Answers :
       IF ok
       THEN /\ Commit(StoreProducer(Cur, rec.po, rec.h, Min(NewHandles), rec.media))
            /\ ret' = Ret("createProducer", rec.rid, rec.pid, "ok")
       ELSE /\ Commit(Failed(Cur))
            /\ ret' = Ret("createProducer", rec.rid, rec.pid, "EngineError")
  /\ Resolve(rec)
  /\ UNCHANGED draining

\* ---- Peer.createConsumer ---------------------------------------------------
\* router.canConsume({producerId, rtpCapabilities}): the router knows the producer
\* and the capabilities (compat) match it.
canConsumeAlways(s, ro, prod, compat) == TRUE
canConsume(s, ro, prod, compat) ==
  /\ compat
  /\ prod \in Handles
  /\ s.eh[prod].kind = "producer" /\ s.eh[prod].open /\ s.eh[prod].rt = ro

\* handleCreateConsumer: getRoom, getPeer, then createConsumer up to
\* "await transport.consume(...)".
CreateConsumer(rid, pid, t, prod, compat) ==
  /\ Dispatch
  /\ LET po == PeerFor(Cur, rid, pid)
     IN IF po = 0 \/ (po # 0 /\ getTransport(Cur, po, t) = Throws)
        THEN /\ ret' = [Ret("createConsumer", rid, pid, "NotFound") EXCEPT !.x = t]
             /\ UNCHANGED calls
        ELSE IF ~canConsume(Cur, peer[po].room, prod, compat)
        THEN /\ ret' = [Ret("createConsumer", rid, pid, "null") EXCEPT !.x = t]
             /\ UNCHANGED calls
        ELSE /\ CanSuspend /\ CanMake
             /\ ret' = NoRet
             /\ Suspend([Call EXCEPT !.op = "createConsumer", !.pc = "consume",
                                     !.rid = rid, !.pid = pid, !.po = po, !.h = t,
                                     !.k = prod])
  /\ Commit(Cur)
  /\ UNCHANGED draining

\* this.consumers.set(id, consumer) and the two listeners; the consumer is paused.
StoreConsumer(s, po, t, prod, h) ==
  [s EXCEPT !.eh[h] = [NewHandle("consumer", po, t, s.eh[t].rt, prod, TRUE)
                         EXCEPT !.media = s.eh[prod].media],
            !.peer[po].consumers = @ \cup {h}]

\* The engine answers transport.consume: store, listeners, then
\* "await consumer.resume()".
CreateConsumerStored(rec) ==
  /\ Micro(calls) = {}
  /\ rec.pc = "consume"
  /\ \E ok \in Answers :
       IF ok
       THEN /\ Commit(StoreConsumer(Cur, rec.po, rec.h, rec.k, Min(NewHandles)))
            /\ ret' = NoRet
            /\ Move(rec, [rec EXCEPT !.pc = "resume", !.h = Min(NewHandles)])
       ELSE /\ Commit(Failed(Cur))
            /\ ret' = Ret("createConsumer", rec.rid, rec.pid, "EngineError")
            /\ Resolve(rec)
  /\ UNCHANGED draining

\* emit consumerCreated, once consumer.resume() has returned.
ResumedPaused(s, po, h) == PeerEmit(s, po, "consumerCreated", h)
Resumed(s, po, h) ==
  PeerEmit([s EXCEPT !.eh[h].paused = FALSE], po, "consumerCreated", h)

\* The engine answers consumer.resume.
CreateConsumerResumed(rec) ==
  /\ Micro(calls) = {}
  /\ rec.pc = "resume"
  /\ \E ok \in Answers :
       IF ok
       THEN /\ Commit(Resumed(Cur, rec.po, rec.h))
            /\ ret' = Ret("createConsumer", rec.rid, rec.pid, "ok")
       ELSE /\ Commit(Failed(Cur))
            /\ ret' = Ret("createConsumer", rec.rid, rec.pid, "EngineError")
  /\ Resolve(rec)
  /\ UNCHANGED draining

\* ---- Peer.closeProducer / Peer.closeConsumer -------------------------------
\* getX(id), x.close(), this.<map>.delete(id)
CloseResourceEmits(s, po, kind, x, fail) ==
  LET s1 == HandleClose(s, x, fail)
  IN IF s1.err # "none" THEN s1
     ELSE PeerEmit(MapDelete(s1, po, kind, x), po, ClosedType(kind), x)
CloseResource(s, po, kind, x, fail) ==
  LET s1 == HandleClose(s, x, fail)
  IN IF s1.err # "none" THEN s1 ELSE MapDelete(s1, po, kind, x)

CloseProducer(rid, pid, x) ==
  /\ Dispatch
  /\ LET po == PeerFor(Cur, rid, pid)
     IN IF po = 0 \/ (po # 0 /\ getProducer(Cur, po, x) = Throws)
        THEN /\ Commit(Cur)
             /\ ret' = Ret("closeProducer", rid, pid, "NotFound")
        ELSE \E fail \in CloseFaults(Cur, x) :
               LET s == CloseResource(Cur, po, "producer", x, fail)
               IN /\ Commit(s)
                  /\ ret' = [Ret("closeProducer", rid, pid, IF s.err # "none" THEN s.err ELSE "ok")
                               EXCEPT !.x = x]
  /\ UNCHANGED <<calls, draining>>

CloseConsumer(rid, pid, x) ==
  /\ Dispatch
  /\ LET po == PeerFor(Cur, rid, pid)
     IN IF po = 0 \/ (po # 0 /\ getConsumer(Cur, po, x) = Throws)
        THEN /\ Commit(Cur)
             /\ ret' = Ret("closeConsumer", rid, pid, "NotFound")
        ELSE \E fail \in CloseFaults(Cur, x) :
               LET s == CloseResource(Cur, po, "consumer", x, fail)
               IN /\ Commit(s)
                  /\ ret' = [Ret("closeConsumer", rid, pid, IF s.err # "none" THEN s.err ELSE "ok")
                               EXCEPT !.x = x]
  /\ UNCHANGED <<calls, draining>>

\* ---- the engine closes a consumer whose producer has closed ------------------
\* The worker's 'producerclose' notification reaches the consumer in a later
\* macrotask and closes it.  createConsumer registers no listener for it: the
\* entry stays in the consumers map and nothing is emitted.
EngineProducerClose(c) ==
  /\ Micro(calls) = {}
  /\ eh[c].kind = "consumer" /\ eh[c].open /\ ~eh[eh[c].prod].open
  /\ Commit([Cur EXCEPT !.eh[c].open = FALSE])
  /\ ret' = NoRet /\ msg' = 0
  /\ UNCHANGED <<calls, draining>>


\* ---- Peer.connectTransport ---------------------------------------------------
\* handleConnectTransport: getRoom, getPeer, then connectTransport: getTransport
\* and "await transport.connect({ dtlsParameters })".
ConnectTransport(rid, pid, t) ==
  /\ Dispatch
  /\ LET po == PeerFor(Cur, rid, pid)
     IN IF po = 0 \/ (po # 0 /\ getTransport(Cur, po, t) = Throws)
        THEN /\ ret' = [Ret("connectTransport", rid, pid, "NotFound") EXCEPT !.x = t]
             /\ UNCHANGED calls
        ELSE /\ CanSuspend
             /\ ret' = NoRet
             /\ Suspend([Call EXCEPT !.op = "connectTransport", !.pc = "connect",
                                     !.rid = rid, !.pid = pid, !.po = po, !.h = t])
  /\ Commit(Cur)
  /\ UNCHANGED draining

\* The engine answers transport.connect: nothing is stored, nothing is emitted.
ConnectTransportAnswer(rec) ==
  /\ Micro(calls) = {}
  /\ rec.pc = "connect"
  /\ \E ok \in Answers :
       IF ok
       THEN /\ Commit(Cur)
            /\ ret' = [Ret("connectTransport", rec.rid, rec.pid, "ok") EXCEPT !.x = rec.h]
       ELSE /\ Commit(Failed(Cur))
            /\ ret' = [Ret("connectTransport", rec.rid, rec.pid, "EngineError")
                         EXCEPT !.x = rec.h]
  /\ Resolve(rec)
  /\ UNCHANGED draining

\* ---- snapshots ---------------------------------------------------------------
\* The info objects built from a handle; what the engine alone knows (ICE, DTLS,
\* RTP parameters) is left out.
TransportInfo(s, x) == [id |-> x]
ProducerInfo(s, x) == [id |-> x, kind |-> s.eh[x].media]
ConsumerInfo(s, x) == [id |-> x, producerId |-> s.eh[x].prod, kind |-> s.eh[x].media]

\* Peer.getInfo: one entry per entry of the three maps.
PeerGetInfo(s, po) ==
  [id |-> s.peer[po].id,
   transports |-> [x \in s.peer[po].transports |-> TransportInfo(s, x)],
   producers  |-> [x \in s.peer[po].producers |-> ProducerInfo(s, x)],
   consumers  |-> [x \in s.peer[po].consumers |-> ConsumerInfo(s, x)]]

\* Room.getInfo: one entry per entry of this.peers.
RoomGetInfo(s, ro) ==
  [id |-> s.room[ro].id,
   peers |-> [p \in {q \in PeerIds : s.room[ro].peers[q] # 0} |->
                PeerGetInfo(s, s.room[ro].peers[p])]]

\* RoomManager.getRoomInfo and RoomManager.getAllRooms.
getRoomInfo(s, rid) ==
  IF findRoom(s, rid) # 0 THEN RoomGetInfo(s, findRoom(s, rid)) ELSE Null
getAllRoomsEver(s) == {RoomGetInfo(s, o) : o \in {q \in RoomObjs : s.room[q].id # NoId}}
getAllRooms(s) == {RoomGetInfo(s, s.rooms[r]) : r \in {q \in RoomIds : s.rooms[q] # 0}}

\* ---- the read handlers ---------------------------------------------------------
\* Each yields the outcome and the data of its response.
handleGetRoomInfo(s, rid) == [out |-> "ok", data |-> getRoomInfo(s, rid)]
handleGetAllRooms(s) == [out |-> "ok", data |-> [rooms |-> getAllRooms(s)]]

handleGetPeerInfoStrict(s, rid, pid) ==
  IF PeerFor(s, rid, pid) = 0 THEN [out |-> "NotFound", data |-> Null]
  ELSE [out |-> "ok", data |-> PeerGetInfo(s, PeerFor(s, rid, pid))]
handleGetPeerInfo(s, rid, pid) ==
  LET ro == findRoom(s, rid)
  IN IF ro = 0 THEN [out |-> "ok", data |-> Null]
     ELSE [out |-> "ok", data |-> IF findPeer(s, ro, pid) # 0
                                   THEN PeerGetInfo(s, findPeer(s, ro, pid)) ELSE Null]

handleGetTransportInfo(s, rid, pid, x) ==
  LET ro == findRoom(s, rid)
  IN IF ro = 0 THEN [out |-> "ok", data |-> Null]
     ELSE IF findPeer(s, ro, pid) = 0 THEN [out |-> "ok", data |-> Null]
     ELSE IF findTransport(s, findPeer(s, ro, pid), x) = 0 THEN [out |-> "ok", data |-> Null]
     ELSE [out |-> "ok", data |-> TransportInfo(s, x)]

handleGetProducerInfo(s, rid, pid, x) ==
  LET ro == findRoom(s, rid)
  IN IF ro = 0 THEN [out |-> "ok", data |-> Null]
     ELSE IF findPeer(s, ro, pid) = 0 THEN [out |-> "ok", data |-> Null]
     ELSE IF findProducer(s, findPeer(s, ro, pid), x) = 0 THEN [out |-> "ok", data |-> Null]
     ELSE [out |-> "ok", data |-> ProducerInfo(s, x)]

handleGetConsumerInfo(s, rid, pid, x) ==
  LET ro == findRoom(s, rid)
  IN IF ro = 0 THEN [out |-> "ok", data |-> Null]
     ELSE IF findPeer(s, ro, pid) = 0 THEN [out |-> "ok", data |-> Null]
     ELSE IF findConsumer(s, findPeer(s, ro, pid), x) = 0 THEN [out |-> "ok", data |-> Null]
     ELSE [out |-> "ok",
           data |-> [id |-> x, producerId |-> s.eh[x].prod, kind |-> s.eh[x].media,
                     paused |-> s.eh[x].paused]]

\* Room.getRouter: throws while this.router is null.
getRouter(s, ro) == IF s.room[ro].router = "null" THEN Throws ELSE ro

\* handleGetRouterRtpCapabilities: strict getRoom, then Room.getRtpCapabilities.
handleGetRouterRtpCapabilities(s, rid) ==
  IF getRoom(s, rid) = Throws THEN [out |-> "NotFound", data |-> Null]
  ELSE IF getRouter(s, getRoom(s, rid)) = Throws
  THEN [out |-> "NotInitialized", data |-> Null]
  ELSE [out |-> "ok", data |-> [rtpCapabilities |-> getRoom(s, rid)]]

\* A handler without an await: it runs from the message to the response in one
\* step and leaves the program as it found it.
Reply(op, rid, pid, x, r) ==
  /\ Dispatch
  /\ Commit([Cur EXCEPT !.data = r.data])
  /\ ret' = [Ret(op, rid, pid, r.out) EXCEPT !.x = x]
  /\ UNCHANGED <<calls, draining>>

GetRoomInfo(rid) == Reply("getRoomInfo", rid, NoId, 0, handleGetRoomInfo(Cur, rid))
GetAllRooms == Reply("getAllRooms", NoId, NoId, 0, handleGetAllRooms(Cur))
GetPeerInfo(rid, pid) == Reply("getPeerInfo", rid, pid, 0, handleGetPeerInfo(Cur, rid, pid))
GetTransportInfo(rid, pid, x) ==
  Reply("getTransportInfo", rid, pid, x, handleGetTransportInfo(Cur, rid, pid, x))
GetProducerInfo(rid, pid, x) ==
  Reply("getProducerInfo", rid, pid, x, handleGetProducerInfo(Cur, rid, pid, x))
GetConsumerInfo(rid, pid, x) ==
  Reply("getConsumerInfo", rid, pid, x, handleGetConsumerInfo(Cur, rid, pid, x))
GetRouterRtpCapabilities(rid) ==
  Reply("getRouterRtpCapabilities", rid, NoId, 0, handleGetRouterRtpCapabilities(Cur, rid))

\* A message whose type is none of the seventeen: the default branch throws.
UnknownCommand ==
  /\ Dispatch
  /\ Commit(Cur)
  /\ ret' = Ret("unknown", NoId, NoId, "UnknownType")
  /\ UNCHANGED <<calls, draining>>

\* ---- the response ---------------------------------------------------------------
\* MessageHandler.handleMessage: the response to the message with this id, given
\* what the handler of the command came to.  A handler that throws is answered
\* by the catch clause; handleCreateConsumer answers a null consumer itself.
handleMessageUnknown(id, r) ==
  [type |-> "response", id |-> IF r.out = "ok" THEN id ELSE 0,
   success |-> r.out = "ok",
   code |-> IF r.out = "ok" THEN "none" ELSE "INTERNAL_ERROR",
   message |-> IF r.out = "ok" THEN "none" ELSE r.out]
handleMessage(id, r) ==
  [type |-> "response", id |-> id, success |-> r.out = "ok",
   code |-> IF r.out = "ok" THEN "none"
            ELSE IF r.op = "createConsumer" /\ r.out = "null" THEN "CONSUMER_ERROR"
            ELSE "COMMAND_ERROR",
   message |-> IF r.out = "ok" THEN "none" ELSE r.out]

\* TakosCallClient.handleResponse: the pending request of the response's id is
\* resolved with the data or rejected with the error.
handleResponse(resp) == IF resp.success THEN "resolve" ELSE "reject"

\* ---- the specifications -----------------------------------------------------
\* The state after construction: new RoomManager(worker).
Init ==
  /\ rooms = [r \in RoomIds |-> 0]
  /\ room = [o \in RoomObjs |-> NoRoom]
  /\ peer = [o \in PeerObjs |-> NoPeer]
  /\ eh = [h \in Handles |-> NoHandle]
  /\ calls = EmptyBag
  /\ draining = FALSE
  /\ faults = 0
  /\ cap = MaxRoomObjs
  /\ emitted = <<>>
  /\ onRoom = <<>>
  /\ closes = <<>>
  /\ ret = NoRet
  /\ hist = NoHist
  /\ msg = 0
  /\ answer = Null
  /\ client = [ids |-> {1}, kinds |-> {"audio"}, inflight |-> MaxInflight]
  /\ conn = NoConns /\ tc = NoClient

\* The peers of a registered room, and the handles in a peer's maps.
LivePeers(rid) == {pid \in PeerIds : PeerFor(Cur, rid, pid) # 0}
TransportsOf(rid, pid) == peer[PeerFor(Cur, rid, pid)].transports
MadeHandles == {h \in Handles : eh[h].kind # "none"}
OpenProducers == {h \in Handles : eh[h].kind = "producer" /\ eh[h].open}

\* Room lifecycle: every room and peer command, on any id, from the state after
\* construction.
NextRooms ==
  \/ \E rid \in RoomIds : CreateRoom(rid)
  \/ \E rec \in Pending : CreateRoomAnswer(rec)
  \/ \E rid \in RoomIds : CloseRoom(rid)
  \/ \E rec \in Pending : CloseRoomIter(rec)
  \/ \E rec \in Pending : CloseRoomDelete(rec)
  \/ \E rid \in RoomIds, pid \in PeerIds : AddPeer(rid, pid)
  \/ \E rid \in RoomIds, pid \in PeerIds : RemovePeer(rid, pid)
  \/ \E rec \in Pending : RemovePeerDelete(rec)
  \/ \E rid \in RoomIds : GetRouterRtpCapabilities(rid)

SpecRooms == Init /\ [][NextRooms]_vars

\* Resources and teardown, from the state that createRoom("r1") and
\* addPeer("r1", "p1") have set up.  The commands address the peers the registry
\* holds; peer "p1" may be removed and added again; closeProducer and
\* closeConsumer are given the id of any handle made so far, in the map or not.
InitPeer ==
  /\ rooms = [r \in RoomIds |-> IF r = "r1" THEN 1 ELSE 0]
  /\ room = [o \in RoomObjs |->
              IF o = 1 THEN [id |-> "r1", router |-> "open",
                             peers |-> [p \in PeerIds |-> IF p = "p1" THEN 1 ELSE 0]]
              ELSE NoRoom]
  /\ peer = [o \in PeerObjs |->
              IF o = 1 THEN [NoPeer EXCEPT !.id = "p1", !.room = 1] ELSE NoPeer]
  /\ eh = [h \in Handles |-> NoHandle]
  /\ calls = EmptyBag
  /\ draining = FALSE
  /\ faults = 0
  /\ cap = MaxObjs
  /\ emitted = <<>>
  /\ onRoom = <<>>
  /\ closes = <<>>
  /\ ret = NoRet
  /\ hist = NoHist
  /\ msg = 0
  /\ answer = Null
  /\ client = [ids |-> {1}, kinds |-> {"audio"}, inflight |-> MaxInflight]
  /\ conn = NoConns /\ tc = NoClient

NextPeers ==
  \/ \E rid \in RoomIds : rooms[rid] # 0 /\ CloseRoom(rid)
  \/ \E rec \in Pending : CloseRoomIter(rec)
  \/ \E rec \in Pending : CloseRoomDelete(rec)
  \/ \E rid \in RoomIds, pid \in {"p1"} : rooms[rid] # 0 /\ AddPeer(rid, pid)
  \/ \E rid \in RoomIds : \E pid \in LivePeers(rid) : RemovePeer(rid, pid)
  \/ \E rec \in Pending : RemovePeerDelete(rec)
  \/ \E rid \in RoomIds : \E pid \in LivePeers(rid) : CreateTransport(rid, pid)
  \/ \E rec \in Pending : CreateTransportAnswer(rec)
  \/ \E rid \in RoomIds : \E pid \in LivePeers(rid) :
        \E t \in TransportsOf(rid, pid) : CreateProducer(rid, pid, t)
  \/ \E rec \in Pending : CreateProducerAnswer(rec)
  \/ \E rid \in RoomIds : \E pid \in LivePeers(rid) :
        \E t \in TransportsOf(rid, pid) : \E prod \in OpenProducers :
           \E compat \in BOOLEAN : CreateConsumer(rid, pid, t, prod, compat)
  \/ \E rec \in Pending : CreateConsumerStored(rec)
  \/ \E rec \in Pending : CreateConsumerResumed(rec)
  \/ \E rid \in RoomIds : \E pid \in LivePeers(rid) :
        \E x \in MadeHandles : CloseProducer(rid, pid, x)
  \/ \E rid \in RoomIds : \E pid \in LivePeers(rid) :
        \E x \in MadeHandles : CloseConsumer(rid, pid, x)
  \/ \E c \in MadeHandles : EngineProducerClose(c)

SpecPeers == InitPeer /\ [][NextPeers]_vars

\* The command surface, from the state that createRoom("r1"), addPeer("r1", "p1"),
\* createTransport and createProducer(audio) have set up: transport 1 and the
\* audio producer 2 on it.  The client goes on with every command, on resource
\* ids present or absent; the producers it makes from here on are video.  The
\* resource commands address peer "p1", in the room or removed from it; peer
\* "p2" is never added.
MsgIds == 1..MaxMsgIds
MediaKinds == {"audio", "video"}

InitCommands ==
  /\ rooms = [r \in RoomIds |-> IF r = "r1" THEN 1 ELSE 0]
  /\ room = [o \in RoomObjs |->
              IF o = 1 THEN [id |-> "r1", router |-> "open",
                             peers |-> [p \in PeerIds |-> IF p = "p1" THEN 1 ELSE 0]]
              ELSE NoRoom]
  /\ peer = [o \in PeerObjs |->
              IF o = 1 THEN [NoPeer EXCEPT !.id = "p1", !.room = 1, !.transports = {1},
                                   !.producers = {2}]
              ELSE NoPeer]
  /\ eh = [h \in Handles |->
            IF h = 1 THEN NewHandle("transport", 1, 0, 1, 0, FALSE)
            ELSE IF h = 2 THEN [NewHandle("producer", 1, 1, 1, 0, FALSE) EXCEPT !.media = "audio"]
            ELSE NoHandle]
  /\ calls = EmptyBag
  /\ draining = FALSE
  /\ faults = 0
  /\ cap = MaxCmdObjs
  /\ emitted = <<>>
  /\ onRoom = <<>>
  /\ closes = <<>>
  /\ ret = NoRet
  /\ hist = NoHist
  /\ msg = 0
  /\ answer = Null
  /\ client = [ids |-> MsgIds, kinds |-> MediaKinds \ {"audio"}, inflight |-> MaxCmdInflight]
  /\ conn = NoConns /\ tc = NoClient

\* The resource ids a client may send: those of the handles made so far and one
\* that no handle has; where a command wants a transport or a producer, the ids
\* of the transports or producers made so far and the one that no handle has.
AbsentIds == IF NewHandles = {} THEN {} ELSE {Min(NewHandles)}
SentIds == MadeHandles \cup AbsentIds
TransportIds == {h \in MadeHandles : eh[h].kind = "transport"} \cup AbsentIds
ProducerIds == {h \in MadeHandles : eh[h].kind = "producer"} \cup AbsentIds
ConsumerIds == {h \in MadeHandles : eh[h].kind = "consumer"} \cup AbsentIds
\* For a peer that is not there the resource id is never looked at: one id stands
\* for all.
IdsAt(rid, pid, S) == IF PeerFor(Cur, rid, pid) = 0 THEN {Min(Handles)} ELSE S
\* The capabilities of a createConsumer fit the producer or not; for an id the
\* router has no open producer under, the answer does not depend on them.
Compat(prod) == IF prod \in OpenProducers THEN BOOLEAN ELSE {TRUE}

\* The commands that only read, and the outcomes of a command that was rejected:
\* such a step leaves the program and the suspended commands as it found them.
ReadOps == {"getRoomInfo", "getAllRooms", "getPeerInfo", "getTransportInfo",
            "getProducerInfo", "getConsumerInfo", "getRouterRtpCapabilities"}
Rejections == {"NotFound", "DuplicateKey", "NotInitialized", "UnknownType", "null"}

\* A run is followed up to its first read or rejected command and no further:
\* whatever follows such a step follows the state before it as well.
Live == ret.op \notin ReadOps /\ ret.out \notin Rejections

NextCommands ==
  \/ \E rid \in RoomIds : Live /\ CloseRoom(rid)
  \/ \E rec \in Pending : Live /\ CloseRoomIter(rec)
  \/ \E rec \in Pending : Live /\ CloseRoomDelete(rec)
  \/ \E rid \in RoomIds, pid \in {"p1"} : Live /\ AddPeer(rid, pid)
  \/ \E rid \in RoomIds, pid \in PeerIds : Live /\ RemovePeer(rid, pid)
  \/ \E rec \in Pending : Live /\ RemovePeerDelete(rec)
  \/ \E rid \in RoomIds, pid \in {"p1"} : Live /\ CreateTransport(rid, pid)
  \/ \E rec \in Pending : Live /\ CreateTransportAnswer(rec)
  \/ \E rid \in RoomIds, pid \in {"p1"} : \E t \in IdsAt(rid, pid, TransportIds) :
        Live /\ ConnectTransport(rid, pid, t)
  \/ \E rec \in Pending : Live /\ ConnectTransportAnswer(rec)
  \/ \E rid \in RoomIds, pid \in {"p1"} : \E t \in IdsAt(rid, pid, TransportIds) :
        Live /\ CreateProducer(rid, pid, t)
  \/ \E rec \in Pending : Live /\ CreateProducerAnswer(rec)
  \/ \E rid \in RoomIds, pid \in {"p1"} :
        \E t \in IdsAt(rid, pid, TransportIds), prod \in IdsAt(rid, pid, ProducerIds) :
           \E compat \in Compat(prod) : Live /\ CreateConsumer(rid, pid, t, prod, compat)
  \/ \E rec \in Pending : Live /\ CreateConsumerStored(rec)
  \/ \E rec \in Pending : Live /\ CreateConsumerResumed(rec)
  \/ \E rid \in RoomIds, pid \in {"p1"} : \E x \in IdsAt(rid, pid, ProducerIds) :
        Live /\ CloseProducer(rid, pid, x)
  \/ \E rid \in RoomIds, pid \in {"p1"} : \E x \in IdsAt(rid, pid, ConsumerIds) :
        Live /\ CloseConsumer(rid, pid, x)
  \/ \E rid \in RoomIds : Live /\ GetRoomInfo(rid)
  \/ Live /\ GetAllRooms
  \/ \E rid \in RoomIds, pid \in PeerIds : Live /\ GetPeerInfo(rid, pid)
  \/ \E rid \in RoomIds, pid \in {"p1"} : \E x \in IdsAt(rid, pid, TransportIds) :
        Live /\ GetTransportInfo(rid, pid, x)
  \/ \E rid \in RoomIds, pid \in {"p1"} : \E x \in IdsAt(rid, pid, ProducerIds) :
        Live /\ GetProducerInfo(rid, pid, x)
  \/ \E rid \in RoomIds, pid \in {"p1"} : \E x \in IdsAt(rid, pid, ConsumerIds) :
        Live /\ GetConsumerInfo(rid, pid, x)
  \/ \E rid \in RoomIds : Live /\ GetRouterRtpCapabilities(rid)
  \/ Live /\ UnknownCommand

SpecCommands == InitCommands /\ [][NextCommands]_vars

\* ---- room lifecycle (SpecRooms) ----------------------------------------------
\* C1: a createRoom(r) issued while r is registered fails with DuplicateKey,
\* leaves the registry, the Rooms, the Peers, the handles and the suspended
\* commands exactly as they were, and emits nothing (so no roomCreated).
C1_DuplicateCreateRejected ==
  [][\A rid \in RoomIds :
       (rooms[rid] # 0 /\ CreateRoom(rid)) =>
          /\ ret' = Ret("createRoom", rid, NoId, "DuplicateKey")
          /\ UNCHANGED <<rooms, room, peer, eh, calls>>
          /\ emitted' = <<>>]_vars

\* A createRoom("r1") has just been rejected as a duplicate of the registered room.
C1_Witness ==
  /\ ret = Ret("createRoom", "r1", NoId, "DuplicateKey")
  /\ rooms["r1"] # 0 /\ room[rooms["r1"]].router = "open"

\* C2: whatever the interleaving, every Room that holds a router is the Room the
\* registry maps its id to: no registered Room is overwritten by a second
\* createRoom of the same id, no router is left without a registered Room.
C2_LiveRoomsRegistered ==
  \A o \in RoomObjs : room[o].router = "open" => rooms[room[o].id] = o

\* C3: when createRouter fails inside createRoom(r), the step in which the error
\* propagates changes neither the registry nor any Room, Peer or handle and emits
\* nothing, and a Room whose initialize has not stored a router is never in the
\* registry: r is as unregistered as before, and the id stays free.
C3_FailedInitNotRegistered ==
  /\ [](\A o \in RoomObjs :
          room[o].router = "null" => \A rid \in RoomIds : rooms[rid] # o)
  /\ [][(ret'.op = "createRoom" /\ ret'.out = "EngineError") =>
          /\ UNCHANGED <<rooms, room, peer, eh>>
          /\ emitted' = <<>>]_vars

\* createRoom("r1") has just failed in the engine and "r1" is not registered.
C3_Witness ==
  /\ ret = Ret("createRoom", "r1", NoId, "EngineError")
  /\ rooms["r1"] = 0
  /\ \E o \in RoomObjs : room[o].id = "r1" /\ room[o].router = "null"

\* C4: when closeRoom(r) completes, r is not registered; a closeRoom(r) that
\* finds no r fails with NotFound, changes nothing and emits nothing; and
\* roomClosed is emitted exactly once by each closeRoom that gets through
\* Room.close, in the step that ends Room.close, and by no other step.
C4_CloseRoomOnce ==
  /\ []((ret.op = "closeRoom" /\ ret.out = "ok") => rooms[ret.rid] = 0)
  /\ [][(ret'.op = "closeRoom" /\ ret'.out = "NotFound") =>
          /\ UNCHANGED <<rooms, room, peer, eh, calls>>
          /\ emitted' = <<>>]_vars
  /\ [][LET closed == {i \in DOMAIN emitted' : emitted'[i].type = "roomClosed"}
            D(c) == Sum({rec \in BagToSet(c) : rec.pc = "delete"}, c)
        IN Cardinality(closed) = IF D(calls') > D(calls) THEN 1 ELSE 0]_vars

\* A closeRoom("r1") has just failed with NotFound after an earlier closeRoom
\* released the router of a Room "r1" and removed it from the registry.
C4_Witness ==
  /\ ret = Ret("closeRoom", "r1", NoId, "NotFound")
  /\ rooms["r1"] = 0
  /\ \E o \in RoomObjs : room[o].id = "r1" /\ room[o].router = "closed"

\* C6: a subscriber that receives roomClosed finds no Room under the id: the
\* registry entry is removed before the event is emitted.
C6_RoomClosedAfterRemoval ==
  \A i \in DOMAIN emitted : emitted[i].type = "roomClosed" => ~emitted[i].found

\* ---- resources and teardown (SpecPeers) ----------------------------------------
\* C5: the step of closeRoom that releases the router of a Room starts in a
\* state where every Peer in the Room's peers map has been closed: its three maps
\* are empty and the engine holds no open handle of it.
C5_RouterReleasedLast ==
  [][\A o \in RoomObjs :
       (room[o].router = "open" /\ room'[o].router = "closed") =>
          \A po \in PeersOf(Cur, o) :
             /\ OpenOf(Cur, po) = {}
             /\ peer[po].transports \cup peer[po].producers \cup peer[po].consumers = {}]_vars

\* closeRoom has released the router after closing a Peer that had handles.
C5_Witness ==
  \E rec \in Pending :
    /\ rec.op = "closeRoom" /\ rec.pc = "delete"
    /\ room[rec.ro].router = "closed"
    /\ \E po \in PeersOf(Cur, rec.ro) : \E h \in Handles : eh[h].owner = po

\* C7: in the teardown of a Peer by removePeer or closeRoom, close() is called on
\* a producer only when no consumer of the Peer is open and on a transport only
\* when no producer or consumer of the Peer is open; and the entry of a Peer
\* leaves the peers map only when the engine holds no open handle of the Peer.
C7_TeardownOrder ==
  /\ [](ret.op \notin {"closeProducer", "closeConsumer"} =>
          \A i \in DOMAIN closes :
             LET c == closes[i] IN
               /\ eh[c.h].kind = "producer" =>
                    \A g \in c.open : eh[g].kind # "consumer"
               /\ eh[c.h].kind = "transport" =>
                    \A g \in c.open : eh[g].kind = "transport")
  /\ [][\A ro \in RoomObjs, pid \in PeerIds :
          (room[ro].peers[pid] # 0 /\ room'[ro].peers[pid] = 0) =>
             OpenOf(Cur, room[ro].peers[pid]) = {}]_vars

\* removePeer has just closed a consumer, a producer and a transport of the Peer
\* and waits to delete the entry.
C7_Witness ==
  /\ \E rec \in Pending : rec.op = "removePeer" /\ rec.pc = "delPeer"
  /\ \E i, j, k \in DOMAIN closes :
       /\ i < j /\ j < k
       /\ eh[closes[i].h].kind = "consumer"
       /\ eh[closes[j].h].kind = "producer"
       /\ eh[closes[k].h].kind = "transport"

\* C8: once removePeer(r, p) on an existing Peer has returned or failed, the
\* registry path finds neither the Peer nor any handle it made.
C8_CascadeComplete ==
  (ret.op = "removePeer" /\ ret.out \in {"ok", "EngineError"}) =>
     /\ PeerFor(Cur, ret.rid, ret.pid) = 0
     /\ \A h \in Handles :
          eh[h].kind # "none" =>
             ~Lookup(Cur, ClosedType(eh[h].kind), ret.rid, ret.pid, h)

\* C9: when a close() throws during the teardown of a Peer by removePeer or
\* closeRoom, close() is still called on every other handle of the Peer: none of
\* them is left open.
C9_BestEffortTeardown ==
  (ret.op \in {"removePeer", "closeRoom"} /\ ret.out = "EngineError"
     /\ closes # <<>>) =>
     LET failed == closes[Len(closes)].h
     IN \A h \in OpenOf(Cur, eh[failed].owner) : h = failed

\* C10: transportClosed, producerClosed or consumerClosed is emitted for a handle
\* only if the matching Created event was emitted for it before.
C10_ClosedOnlyAfterCreated ==
  \A h \in Handles :
    /\ hist["transportClosed"][h] > 0 => hist["transportCreated"][h] > 0
    /\ hist["producerClosed"][h] > 0 => hist["producerCreated"][h] > 0
    /\ hist["consumerClosed"][h] > 0 => hist["consumerCreated"][h] > 0

\* C11: no transportCreated, producerCreated or consumerCreated is emitted for a
\* handle after the matching Closed event was emitted for it.
C11_NoCreatedAfterClosed ==
  \A i \in DOMAIN emitted :
    emitted[i].type \in {"transportCreated", "producerCreated", "consumerCreated"} =>
       hist[ClosedType(KindOf(emitted[i].type))][emitted[i].x] = 0

\* C12: when a Created event for (room r, peer p, handle x) is emitted, the
\* lookup of x through findRoom(r), findPeer(p), findX(x) succeeds.
C12_CreatedIsVisible ==
  \A i \in DOMAIN emitted :
    emitted[i].type \in {"transportCreated", "producerCreated", "consumerCreated"} =>
       emitted[i].found

\* C13: every handle in a map of a Peer that the registry path reaches has had
\* its Created event emitted.
C13_NoLookupBeforeCreated ==
  \A rid \in RoomIds, pid \in PeerIds :
    LET po == PeerFor(Cur, rid, pid)
    IN po # 0 =>
         /\ \A h \in peer[po].transports : hist["transportCreated"][h] > 0
         /\ \A h \in peer[po].producers : hist["producerCreated"][h] > 0
         /\ \A h \in peer[po].consumers : hist["consumerCreated"][h] > 0

\* C14: createConsumer on an existing transport with capabilities the router
\* cannot consume the producer with returns null, sends nothing to the engine,
\* changes no map, no Room, no Peer and no handle, and emits nothing.
C14_IncompatibleConsumer ==
  [][LET Begun == {rec \in BagToSet(calls') :
                     /\ rec.op = "createConsumer"
                     /\ CopiesIn(rec, calls') > CopiesIn(rec, calls)}
     IN (ret'.op = "createConsumer" \/ Begun # {}) =>
          \A rid \in RoomIds, pid \in PeerIds, t \in Handles, prod \in Handles :
            (/\ \/ ret'.op = "createConsumer" /\ ret'.pid = pid /\ ret'.x = t
                \/ \E rec \in Begun : rec.pid = pid /\ rec.h = t /\ rec.k = prod
             /\ PeerFor(Cur, rid, pid) # 0
             /\ t \in peer[PeerFor(Cur, rid, pid)].transports
             /\ CreateConsumer(rid, pid, t, prod, FALSE)) =>
               /\ ret' = [Ret("createConsumer", rid, pid, "null") EXCEPT !.x = t]
               /\ UNCHANGED <<rooms, room, peer, eh, calls>>
               /\ emitted' = <<>> /\ onRoom' = <<>> /\ closes' = <<>>]_vars

\* An incompatible createConsumer on a transport of "p1" has just returned null
\* while the producer it named is open.
C14_Witness ==
  /\ ret.op = "createConsumer" /\ ret.rid = "r1" /\ ret.pid = "p1" /\ ret.out = "null"
  /\ PeerFor(Cur, "r1", "p1") # 0
  /\ peer[PeerFor(Cur, "r1", "p1")].transports # {}
  /\ OpenProducers # {}

\* C15: a consumer is made paused and is in the consumers map of its Peer in the
\* same step, with no consumerCreated yet; it leaves the paused state only in
\* the step that emits its consumerCreated; an open consumer that is not paused
\* is in the consumers map; and consumerCreated is never emitted for a consumer
\* that is still paused.
C15_ConsumerOrder ==
  /\ [](\A h \in Handles :
          (eh[h].kind = "consumer" /\ eh[h].open /\ ~eh[h].paused) =>
             h \in peer[eh[h].owner].consumers)
  /\ [](\A i \in DOMAIN emitted :
          emitted[i].type = "consumerCreated" => ~eh[emitted[i].x].paused)
  /\ [][\A h \in Handles :
          (eh[h].kind = "none" /\ eh'[h].kind = "consumer") =>
             /\ eh'[h].paused
             /\ h \in peer'[eh'[h].owner].consumers
             /\ hist'["consumerCreated"][h] = 0]_vars
  /\ [][\A h \in Handles :
          (eh[h].kind = "consumer" /\ eh[h].paused /\ ~eh'[h].paused) =>
             \E i \in DOMAIN emitted' :
                emitted'[i].type = "consumerCreated" /\ emitted'[i].x = h]_vars

\* createConsumer has just completed: the consumer is resumed, open, in the map,
\* and its consumerCreated is the event of the step.
C15_Witness ==
  /\ ret.op = "createConsumer" /\ ret.out = "ok"
  /\ \E i \in DOMAIN emitted :
       /\ emitted[i].type = "consumerCreated"
       /\ eh[emitted[i].x].open /\ ~eh[emitted[i].x].paused
       /\ emitted[i].x \in peer[eh[emitted[i].x].owner].consumers

\* C16: for every handle at most one transportClosed, producerClosed or
\* consumerClosed is ever emitted, whichever close paths run.
C16_ClosedAtMostOnce ==
  \A h \in Handles :
    /\ hist["transportClosed"][h] <= 1
    /\ hist["producerClosed"][h] <= 1
    /\ hist["consumerClosed"][h] <= 1

\* The teardown of a Peer by removePeer has closed a handle of the Peer after an
\* explicit closeProducer / closeConsumer had closed another one, which the
\* teardown did not find any more.
C16_Witness ==
  \E rec \in Pending :
    /\ rec.op = "removePeer" /\ rec.pc = "delPeer"
    /\ closes # <<>>
    /\ \E h \in Handles :
         /\ eh[h].owner = rec.po /\ eh[h].kind \in {"producer", "consumer"}
         /\ hist[ClosedType(eh[h].kind)][h] = 1
         /\ \A i \in DOMAIN closes : closes[i].h # h

\* C17: a handle that has left the map of its Peer has had exactly one Closed
\* event emitted for it, also when it left because its router or its transport
\* closed.
C17_RemovalHasClosedEvent ==
  \A h \in Handles :
    (eh[h].kind # "none" /\ h \notin MapOf(Cur, eh[h].owner, eh[h].kind)) =>
       hist[ClosedType(eh[h].kind)][h] = 1

\* C18: closeProducer / closeConsumer on an id that is not in the map of the Peer
\* fails with NotFound (a call that does not fail with NotFound was given an id
\* of the map), and the failed call calls no close(), changes nothing and emits
\* nothing; on an id in the map, when it returns, the handle is closed, the id
\* has left the map, and every other entry of every Peer is as before.
C18_CloseResource ==
  [][ret'.op \in {"closeProducer", "closeConsumer"} =>
       LET x   == ret'.x
           po  == PeerFor(Cur, ret'.rid, ret'.pid)
           map == IF ret'.op = "closeProducer" THEN "producers" ELSE "consumers"
       IN /\ ret'.out = "NotFound" =>
               /\ UNCHANGED <<rooms, room, peer, eh, calls>>
               /\ emitted' = <<>> /\ closes' = <<>>
          /\ ret'.out # "NotFound" => po # 0 /\ x \in peer[po][map]
          /\ ret'.out = "ok" =>
               /\ ~eh'[x].open
               /\ peer' = [peer EXCEPT ![po][map] = @ \ {x}]]_vars

\* closeProducer has just failed with NotFound on a Peer that holds a handle.
C18_Witness ==
  /\ ret.op = "closeProducer" /\ ret.rid = "r1" /\ ret.pid = "p1" /\ ret.out = "NotFound"
  /\ PeerFor(Cur, "r1", "p1") # 0
  /\ peer[PeerFor(Cur, "r1", "p1")].transports # {}
  /\ closes = <<>>

\* C19: addPeer(p) on a Room that contains p fails with DuplicateKey, changes no
\* Room, Peer, map or handle and emits nothing, on the Room or on the RoomManager;
\* and the entries of a peers map are distinct Peers carrying the id of their key.
C19_DuplicateAddPeer ==
  /\ [](\A ro \in RoomObjs : \A p, q \in PeerIds :
          room[ro].peers[p] # 0 =>
             /\ peer[room[ro].peers[p]].id = p
             /\ (p # q => room[ro].peers[p] # room[ro].peers[q]))
  /\ [][\A rid \in RoomIds, pid \in PeerIds :
          (PeerFor(Cur, rid, pid) # 0 /\ AddPeer(rid, pid)) =>
             /\ ret' = Ret("addPeer", rid, pid, "DuplicateKey")
             /\ UNCHANGED <<rooms, room, peer, eh, calls>>
             /\ emitted' = <<>> /\ onRoom' = <<>>]_vars

\* addPeer("r1", "p1") has just been rejected as a duplicate of a Peer that holds
\* a transport.
C19_Witness ==
  /\ ret = Ret("addPeer", "r1", "p1", "DuplicateKey")
  /\ PeerFor(Cur, "r1", "p1") # 0
  /\ peer[PeerFor(Cur, "r1", "p1")].transports # {}

\* C20: the step in which addPeer(r, p) succeeds emits exactly one peerAdded on
\* the RoomManager, carrying r and p, with p registered in r.
C20_PeerAddedOutward ==
  (ret.op = "addPeer" /\ ret.out = "ok") =>
     /\ Cardinality({i \in DOMAIN emitted : emitted[i].type = "peerAdded"}) = 1
     /\ \A i \in DOMAIN emitted :
          emitted[i].type = "peerAdded" =>
             /\ emitted[i].roomId = ret.rid /\ emitted[i].peerId = ret.pid
             /\ emitted[i].found

\* C21: every event emitted on the RoomManager carries the id of the Room it
\* came from; an event about a Peer or a handle carries the id of the Peer that
\* emitted it, which is a Peer of that Room; an event about a handle carries the
\* id of a handle of that kind made by that Peer.
C21_EventsAddressed ==
  \A i \in DOMAIN emitted :
    LET e == emitted[i] IN
      /\ e.roomId = room[e.ro].id
      /\ KindOf(e.type) # "room" =>
           /\ e.po # 0 /\ e.peerId = peer[e.po].id /\ peer[e.po].room = e.ro
      /\ KindOf(e.type) \in {"transport", "producer", "consumer"} =>
           /\ e.x \in Handles
           /\ eh[e.x].kind = KindOf(e.type) /\ eh[e.x].owner = e.po

\* consumerCreated, whose payload carries three resource ids, has just been
\* emitted with the room id, the peer id and the consumer id.
C21_Witness ==
  \E i \in DOMAIN emitted :
    /\ emitted[i].type = "consumerCreated"
    /\ emitted[i].roomId = "r1" /\ emitted[i].peerId = "p1"
    /\ eh[emitted[i].x].kind = "consumer"

\* C22: the step in which removePeer(r, p) closes an existing Peer emits exactly
\* one peerClosed, for (r, p); the steps in which removePeer returns, or fails
\* with NotFound or with an engine error, emit none; each stretch of closeRoom
\* that closes a Peer emits exactly one peerClosed, for that Peer, every other
\* stretch none; and when Room.close ends, every Peer in the peers map has been
\* closed by it.
C22_OnePeerClosed ==
  [][LET pc == {i \in DOMAIN emitted' : emitted'[i].type = "peerClosed"}
         Begun == {rec \in BagToSet(calls') : CopiesIn(rec, calls') > CopiesIn(rec, calls)}
     IN /\ ret'.op \in {"removePeer", "closeRoom"} => pc = {}
        /\ \A rec \in Begun :
             /\ (rec.op = "removePeer" \/ (rec.op = "closeRoom" /\ rec.pc = "iter")) =>
                  /\ Cardinality(pc) = 1
                  /\ \A i \in pc :
                       /\ emitted'[i].roomId = rec.rid
                       /\ emitted'[i].po = (IF rec.op = "removePeer" THEN rec.po ELSE rec.k)
                       /\ emitted'[i].peerId = peer[emitted'[i].po].id
                       /\ rec.op = "removePeer" => emitted'[i].peerId = rec.pid
             /\ (rec.op = "closeRoom" /\ rec.pc = "delete") =>
                  /\ pc = {}
                  /\ \A p \in PeerIds :
                       room'[rec.ro].peers[p] # 0 => room'[rec.ro].peers[p] \in rec.seen]_vars

\* closeRoom has just closed a Peer that held a handle: one peerClosed is the
\* last event of the stretch, and Room.close waits to go on.
C22_Witness ==
  /\ \E rec \in Pending : rec.op = "closeRoom" /\ rec.pc = "iter" /\ rec.seen # {}
  /\ closes # <<>>
  /\ Cardinality({i \in DOMAIN emitted : emitted[i].type = "peerClosed"}) = 1

\* ---- the command surface (SpecCommands) ----------------------------------------
\* C23: getRoomInfo, getPeerInfo, getTransportInfo, getProducerInfo and
\* getConsumerInfo are always answered with success; the data is null when the
\* room is not registered, when the peer is not in the room's peers map, or when
\* the resource is not in the peer's map, and the snapshot of the addressed
\* entity otherwise.
C23_ReadsNeverFail ==
  ret.op \in {"getRoomInfo", "getPeerInfo", "getTransportInfo", "getProducerInfo",
              "getConsumerInfo"} =>
    LET ro == rooms[ret.rid]
        po == IF ro = 0 \/ ret.pid = NoId THEN 0 ELSE room[ro].peers[ret.pid]
        x  == ret.x
    IN /\ ret.out = "ok" /\ handleMessage(msg, ret).success
       /\ ret.op = "getRoomInfo" =>
            IF ro = 0 THEN answer = Null
            ELSE answer = RoomGetInfo(Cur, ro) /\ answer.id = ret.rid
       /\ ret.op = "getPeerInfo" =>
            IF po = 0 THEN answer = Null
            ELSE answer = PeerGetInfo(Cur, po) /\ answer.id = ret.pid
       /\ ret.op = "getTransportInfo" =>
            IF po = 0 \/ (po # 0 /\ x \notin peer[po].transports) THEN answer = Null
            ELSE answer = [id |-> x]
       /\ ret.op = "getProducerInfo" =>
            IF po = 0 \/ (po # 0 /\ x \notin peer[po].producers) THEN answer = Null
            ELSE answer = [id |-> x, kind |-> eh[x].media]
       /\ ret.op = "getConsumerInfo" =>
            IF po = 0 \/ (po # 0 /\ x \notin peer[po].consumers) THEN answer = Null
            ELSE answer = [id |-> x, producerId |-> eh[x].prod, kind |-> eh[x].media,
                           paused |-> eh[x].paused]

\* getPeerInfo for a peer that is not in a registered room has just been answered
\* with success and null.
C23_Witness ==
  /\ ret.op = "getPeerInfo" /\ rooms[ret.rid] # 0
  /\ room[rooms[ret.rid]].peers[ret.pid] = 0
  /\ ret.out = "ok" /\ answer = Null

\* C24: getRoom, getPeer, getTransport, getProducer and getConsumer throw exactly
\* when findRoom, findPeer, findTransport, findProducer and findConsumer return
\* null, and return the same entity otherwise; a mutating command that addresses
\* a room that is not registered, or a peer that is not in its room, fails with
\* NotFound, changes nothing and emits nothing.
C24_StrictAndSafeAgree ==
  /\ [](/\ \A rid \in RoomIds :
             IF findRoom(Cur, rid) = 0 THEN getRoom(Cur, rid) = Throws
             ELSE getRoom(Cur, rid) = findRoom(Cur, rid)
        /\ \A ro \in {o \in RoomObjs : room[o].id # NoId}, pid \in PeerIds :
             IF findPeer(Cur, ro, pid) = 0 THEN getPeer(Cur, ro, pid) = Throws
             ELSE getPeer(Cur, ro, pid) = findPeer(Cur, ro, pid)
        /\ \A po \in {o \in PeerObjs : peer[o].id # NoId}, x \in Handles :
             /\ IF findTransport(Cur, po, x) = 0 THEN getTransport(Cur, po, x) = Throws
                ELSE getTransport(Cur, po, x) = findTransport(Cur, po, x)
             /\ IF findProducer(Cur, po, x) = 0 THEN getProducer(Cur, po, x) = Throws
                ELSE getProducer(Cur, po, x) = findProducer(Cur, po, x)
             /\ IF findConsumer(Cur, po, x) = 0 THEN getConsumer(Cur, po, x) = Throws
                ELSE getConsumer(Cur, po, x) = findConsumer(Cur, po, x))
  /\ [][LET noRoom == findRoom(Cur, ret'.rid) = 0
            noPeer == noRoom \/ findPeer(Cur, findRoom(Cur, ret'.rid), ret'.pid) = 0
        IN (/\ calls' = calls
            /\ \/ ret'.op \in {"closeRoom", "addPeer"} /\ noRoom
               \/ /\ ret'.op \in {"removePeer", "createTransport", "connectTransport",
                                  "createProducer", "createConsumer", "closeProducer",
                                  "closeConsumer"}
                  /\ noPeer) =>
             /\ ret'.out = "NotFound" /\ ~handleMessage(msg', ret').success
             /\ UNCHANGED <<rooms, room, peer, eh, faults>>
             /\ emitted' = <<>> /\ onRoom' = <<>> /\ closes' = <<>>]_vars

\* addPeer on a room id that is not registered has just failed with NotFound,
\* and findRoom returns null for that id.
C24_Witness ==
  /\ ret.op = "addPeer" /\ ret.out = "NotFound"
  /\ findRoom(Cur, ret.rid) = 0 /\ getRoom(Cur, ret.rid) = Throws

\* C25: the data of getAllRooms lists exactly the registered rooms, and the data
\* of getRoomInfo and each listed room show exactly the peers in the room's peers
\* map, each under its id with exactly the transports, producers (with the kind
\* they were made with) and consumers in its maps; with no room registered the
\* list is empty.
C25_ExactProjection ==
  LET Exact(info) ==
        LET ro == rooms[info.id]
        IN /\ ro # 0
           /\ DOMAIN info.peers = {p \in PeerIds : room[ro].peers[p] # 0}
           /\ \A p \in DOMAIN info.peers :
                LET po == room[ro].peers[p]
                    pi == info.peers[p]
                IN /\ pi.id = p
                   /\ DOMAIN pi.transports = peer[po].transports
                   /\ DOMAIN pi.producers = peer[po].producers
                   /\ DOMAIN pi.consumers = peer[po].consumers
                   /\ \A x \in DOMAIN pi.transports : pi.transports[x].id = x
                   /\ \A x \in DOMAIN pi.producers :
                        pi.producers[x].id = x /\ pi.producers[x].kind = eh[x].media
                   /\ \A x \in DOMAIN pi.consumers :
                        /\ pi.consumers[x].id = x
                        /\ pi.consumers[x].producerId = eh[x].prod
  IN /\ ret.op = "getAllRooms" =>
          /\ ret.out = "ok"
          /\ {info.id : info \in answer.rooms} = {rid \in RoomIds : rooms[rid] # 0}
          /\ Cardinality(answer.rooms) = Cardinality({rid \in RoomIds : rooms[rid] # 0})
          /\ \A info \in answer.rooms : Exact(info)
     /\ (ret.op = "getRoomInfo" /\ rooms[ret.rid] # 0) =>
          answer.id = ret.rid /\ Exact(answer)

\* getAllRooms has just shown one room with one peer with one transport, the
\* audio producer and a video producer made since.
C25_Witness ==
  /\ ret.op = "getAllRooms"
  /\ \E info \in answer.rooms :
       /\ answer.rooms = {info} /\ info.id = "r1" /\ DOMAIN info.peers = {"p1"}
       /\ Cardinality(DOMAIN info.peers["p1"].transports) = 1
       /\ \E x, y \in Handles :
            /\ DOMAIN info.peers["p1"].producers = {x, y}
            /\ info.peers["p1"].producers[x].kind = "audio"
            /\ info.peers["p1"].producers[y].kind = "video"

\* C26: no answer of getRoomInfo, getAllRooms or getPeerInfo shows a peer that a
\* removePeer or closeRoom in progress has already closed, nor a room whose
\* router has been closed.
C26_SnapshotsConsistent ==
  LET closing == {rec.po : rec \in {c \in Pending : c.op = "removePeer"}}
                 \cup UNION {rec.seen : rec \in {c \in Pending : c.op = "closeRoom"}}
      Sound(info) ==
        /\ room[rooms[info.id]].router # "closed"
        /\ \A p \in DOMAIN info.peers : room[rooms[info.id]].peers[p] \notin closing
  IN /\ ret.op = "getAllRooms" => \A info \in answer.rooms : Sound(info)
     /\ (ret.op = "getRoomInfo" /\ answer # Null) => Sound(answer)
     /\ (ret.op = "getPeerInfo" /\ answer # Null) =>
          room[rooms[ret.rid]].peers[ret.pid] \notin closing

\* C27: connectTransport, createProducer and createConsumer on a peer whose
\* transports map lacks the transport id fail with NotFound in the step they
\* arrive in, with no engine call, no change of the Peers and handles and no
\* event; a command that is suspended at the engine was given a transport of the
\* map; and when the engine fails connect, produce or consume the command ends
\* with the engine's error in that step, with no entry added and no event.
C27_TransportLookupFirst ==
  [][LET ops == {"connectTransport", "createProducer", "createConsumer"}
         po  == PeerFor(Cur, ret'.rid, ret'.pid)
         Begun == {rec \in BagToSet(calls') : CopiesIn(rec, calls') > CopiesIn(rec, calls)}
         Ended == {rec \in Pending : CopiesIn(rec, calls') < CopiesIn(rec, calls)}
     IN /\ (ret'.op \in ops /\ calls' = calls /\ po # 0
              /\ ret'.x \notin peer[po].transports) =>
             /\ ret'.out = "NotFound"
             /\ UNCHANGED <<peer, eh, faults>> /\ emitted' = <<>>
        /\ \A rec \in Begun :
             (rec.op \in ops /\ rec.pc \in {"connect", "engine", "consume"}) =>
                rec.h \in peer[rec.po].transports
        /\ \A rec \in Ended :
             (rec.op \in ops /\ rec.pc \in {"connect", "engine", "consume"}
                /\ faults' # faults) =>
                /\ ret' = [Ret(rec.op, rec.rid, rec.pid, "EngineError") EXCEPT
                             !.x = IF rec.op = "connectTransport" THEN rec.h ELSE 0]
                /\ calls' = calls (-) SetToBag({rec})
                /\ UNCHANGED <<peer, eh>> /\ emitted' = <<>>]_vars

\* connectTransport on an existing peer with a transport id that is not in its
\* map has just failed with NotFound.
C27_Witness ==
  /\ ret.op = "connectTransport" /\ ret.out = "NotFound"
  /\ PeerFor(Cur, ret.rid, ret.pid) # 0
  /\ ret.x \notin peer[PeerFor(Cur, ret.rid, ret.pid)].transports

\* C28: a step that completes a command sends the response of type "response"
\* with the id of the message that started that command: the message that has
\* just arrived, or the suspended command that resumes and ends; the response is
\* a success exactly when the handler returned, and carries an error code and
\* message otherwise (unknown message type included); a step that completes no
\* command ends none.
C28_ResponseCorrelated ==
  [][LET resp == handleMessage(msg', ret')
         Ended == {rec \in Pending : CopiesIn(rec, calls') < CopiesIn(rec, calls)}
     IN /\ ret'.op # "none" =>
             /\ resp.type = "response" /\ resp.id = msg' /\ resp.id \in client.ids
             /\ resp.success = (ret'.out \in {"ok"})
             /\ ~resp.success =>
                  /\ resp.code \in {"COMMAND_ERROR", "CONSUMER_ERROR"}
                  /\ resp.message = ret'.out
             /\ \/ calls' = calls /\ ~draining /\ msg' = NextId
                \/ \E rec \in Ended : /\ rec.id = msg' /\ calls' = calls (-) SetToBag({rec})
                                      /\ (rec.op = ret'.op \/ rec.op = "none")
        /\ ret'.op = "none" => Ended \subseteq {rec \in Ended : rec.id = msg'}
        /\ ret'.op = "none" => BagCardinality(calls') >= BagCardinality(calls)]_vars

\* A message of unknown type has just been answered with an error response
\* that carries its id.
C28_Witness ==
  /\ ret.op = "unknown" /\ msg \in client.ids
  /\ handleMessage(msg, ret).id = msg /\ ~handleMessage(msg, ret).success
  /\ handleMessage(msg, ret).code = "COMMAND_ERROR"

\* C29: a createConsumer whose capabilities do not fit the producer is answered
\* with a success response, so that the client's request resolves.
C29_NullConsumerResolves ==
  (ret.op = "createConsumer" /\ ret.out = "null") =>
     /\ handleMessage(msg, ret).success
     /\ handleResponse(handleMessage(msg, ret)) = "resolve"

\* C30: every registered Room has a router; getRouterRtpCapabilities and the
\* peer commands never fail with NotInitialized; every Peer was added to a Room
\* that had its router.
C30_RegisteredIsInitialized ==
  /\ \A rid \in RoomIds : rooms[rid] # 0 => room[rooms[rid]].router # "null"
  /\ \A rid \in RoomIds : rooms[rid] # 0 => getRouter(Cur, rooms[rid]) # Throws
  /\ ret.out # "NotInitialized"
  /\ \A po \in PeerObjs : peer[po].id # NoId => room[peer[po].room].router # "null"
  /\ (ret.op = "getRouterRtpCapabilities" /\ rooms[ret.rid] # 0) => ret.out = "ok"

\* getRouterRtpCapabilities has just been answered with success for a registered
\* room whose router is open.
C30_Witness ==
  /\ ret.op = "getRouterRtpCapabilities" /\ ret.out = "ok"
  /\ rooms[ret.rid] # 0 /\ room[rooms[ret.rid]].router = "open"

\* ---- C31..C36: ownership and teardown races (SpecPeers) -------------------------
\* Everything a Peer holds in its three maps.
Held(po) == peer[po].transports \cup peer[po].producers \cup peer[po].consumers

Registered(po) ==
  /\ peer[po].id # NoId
  /\ room[peer[po].room].peers[peer[po].id] = po
  /\ rooms[room[peer[po].room].id] = peer[po].room

\* C34: when nothing is suspended and no engine call has failed, every handle the
\* engine returned is closed, or is in the map of its kind of a Peer that is in
\* its Room's peers map, the Room being registered.
C34_NoOrphanedHandle ==
  (calls = EmptyBag /\ faults = 0) =>
     \A h \in MadeHandles :
        eh[h].open => /\ h \in MapOf(Cur, eh[h].owner, eh[h].kind)
                      /\ Registered(eh[h].owner)

\* C35: when no createConsumer is suspended, every consumer in a consumers map
\* has had its consumerCreated emitted: a createConsumer whose consumer.resume()
\* was rejected has left no entry and no open handle behind.
C35_FailedResumeLeavesNoTrace ==
  (\A rec \in Pending : rec.op # "createConsumer") =>
     /\ \A po \in PeerObjs : \A h \in peer[po].consumers :
          hist["consumerCreated"][h] > 0
     /\ \A h \in MadeHandles :
          (eh[h].kind = "consumer" /\ eh[h].open) => hist["consumerCreated"][h] > 0

\* ---- C36: the engine's close of a consumer whose producer closed --------------
\* What the event loop runs without any client: the continuation of a suspended
\* command (a settled engine promise, the next turn of closeRoom's and
\* removePeer's loops) and the delivery of the worker's notifications.  Node
\* runs every ready continuation and delivers every notification; the commands
\* themselves come from clients, which owe the server nothing.
EngineStep ==
  \/ \E rec \in Pending : CloseRoomIter(rec)
  \/ \E rec \in Pending : CloseRoomDelete(rec)
  \/ \E rec \in Pending : RemovePeerDelete(rec)
  \/ \E rec \in Pending : CreateTransportAnswer(rec)
  \/ \E rec \in Pending : CreateProducerAnswer(rec)
  \/ \E rec \in Pending : CreateConsumerStored(rec)
  \/ \E rec \in Pending : CreateConsumerResumed(rec)
  \/ \E c \in MadeHandles : EngineProducerClose(c)

SpecPeersFair == InitPeer /\ [][NextPeers]_vars /\ WF_vars(EngineStep)

\* The consumers the engine has closed on its own because their producer closed,
\* and that a consumers map still holds.
ProducerClosed(c) ==
  /\ eh[c].kind = "consumer" /\ ~eh[c].open /\ ~eh[eh[c].prod].open
  /\ c \in peer[eh[c].owner].consumers

\* C36: closeProducer removes no consumer from any map in its own step; and no
\* consumer that the engine closed because its producer closed stays in a
\* consumers map forever: time and again it is out of the map (with the
\* consumerClosed that the removal emits).
C36_ProducerCloseMirrored ==
  /\ [][ret'.op = "closeProducer" =>
          \A po \in PeerObjs : peer[po].consumers \subseteq peer'[po].consumers]_vars
  /\ \A c \in Handles : []<>(~ProducerClosed(c))

\* ---- main.ts: the WebSocket server --------------------------------------------
core == <<rooms, room, peer, eh, calls, draining, faults, cap, emitted, onRoom, closes, ret,
          hist, msg, answer, client>>

\* config.apiKey: process.env.API_KEY || "default_api_key", never empty.
ConfigApiKey == "default_api_key"
Credentials == {Absent, "", ConfigApiKey, "wrong"}

\* const apiKey = url.searchParams.get("api_key") || request.headers["api-key"]:
\* the header counts when the query parameter is missing or empty.
apiKeyOf(q, h) == IF q = Absent \/ q = "" THEN h ELSE q

\* The request carries the configured key neither in the query (Absent: no
\* api_key parameter) nor in the header (Absent: no api-key header).
Keyless(q, h) == q # ConfigApiKey /\ h # ConfigApiKey

AuthorizedAnyKey(q, h) == apiKeyOf(q, h) \notin {Absent, ""}
Authorized(q, h) == apiKeyOf(q, h) = ConfigApiKey

\* wss.on("connection"): a mismatch closes the socket and returns; otherwise the
\* socket enters the clients map and gets its message and close listeners.
Connection(c, q, h) ==
  /\ conn[c].readyState = "none"
  /\ \A d \in Conns : d < c => conn[d].readyState # "none"
  /\ conn' = [conn EXCEPT ![c] =
                IF ~Authorized(q, h)
                THEN [@ EXCEPT !.readyState = "CLOSING", !.keyless = Keyless(q, h)]
                ELSE [@ EXCEPT !.readyState = "OPEN", !.keyless = Keyless(q, h),
                               !.inClients = TRUE, !.onMessage = TRUE, !.onClose = TRUE]]
  /\ UNCHANGED <<core, tc>>

\* The remote end sends a message, also while the server's close handshake is
\* under way.  socket.on("message") runs handleMessage and sends the response;
\* without the listener the message is dropped.
Frame(c) ==
  /\ conn[c].readyState \in {"OPEN", "CLOSING"}
  /\ conn[c].frames < MaxFrames
  /\ conn' = [conn EXCEPT ![c].frames = @ + 1,
                          ![c].handled = IF conn[c].onMessage THEN @ + 1 ELSE @]
  /\ UNCHANGED <<core, tc>>

\* roomManager.on(<event>) -> broadcastEvent: every socket of the clients map
\* whose readyState is OPEN is sent the event.
BroadcastEvent ==
  /\ \A c \in Conns : conn[c].events < MaxEvents
  /\ conn' = [c \in Conns |->
                IF conn[c].inClients /\ conn[c].readyState = "OPEN"
                THEN [conn[c] EXCEPT !.events = @ + 1] ELSE conn[c]]
  /\ UNCHANGED <<core, tc>>

\* The remote end starts the close handshake.
RemoteClosing(c) ==
  /\ conn[c].readyState = "OPEN"
  /\ conn' = [conn EXCEPT ![c].readyState = "CLOSING"]
  /\ UNCHANGED <<core, tc>>

\* The socket's close event: socket.on("close") deletes it from the clients map.
SocketClosed(c) ==
  /\ conn[c].readyState \in {"OPEN", "CLOSING"}
  /\ conn' = [conn EXCEPT ![c].readyState = "CLOSED",
                          ![c].inClients = IF conn[c].onClose THEN FALSE ELSE @]
  /\ UNCHANGED <<core, tc>>

NextServer ==
  \/ \E c \in Conns : \E q, h \in Credentials : Connection(c, q, h)
  \/ \E c \in Conns : Frame(c)
  \/ BroadcastEvent
  \/ \E c \in Conns : RemoteClosing(c)
  \/ \E c \in Conns : SocketClosed(c)

SpecServer == Init /\ [][NextServer]_vars

\* ---- C32: authentication gate (SpecServer) ------------------------------------
\* C32: a connection that does not present the configured API key is closed by
\* the server, is never in the clients map, has no message listener, has no
\* command run for it and is sent no event.
C32_KeylessConnectionShutOut ==
  \A c \in Conns :
     (conn[c].readyState # "none" /\ conn[c].keyless) =>
        /\ conn[c].readyState \in {"CLOSING", "CLOSED"}
        /\ ~conn[c].inClients /\ ~conn[c].onMessage
        /\ conn[c].handled = 0 /\ conn[c].events = 0

\* A connection without the key has sent a message, and an event has been
\* broadcast to an authenticated client meanwhile.
C32_Witness ==
  \E c, d \in Conns :
     /\ conn[c].keyless /\ conn[c].readyState = "CLOSED" /\ conn[c].frames > 0
     /\ ~conn[d].keyless /\ conn[d].events > 0 /\ conn[d].handled > 0

\* ---- client.ts: TakosCallClient -----------------------------------------------
\* resolve(v) / reject(e) of a request's promise: the first call settles it,
\* later calls change nothing.
Settle(c, r, how, by) ==
  [c EXCEPT !.promise[r] =
     IF @.state = "pending" THEN [state |-> how, by |-> by] ELSE @]

\* reject(...) of the connect() promise whose handlers socket s carries; the
\* reject of a request chained to it by connect().catch(reject) runs with it.
RejectConnect(c, s) ==
  IF ~c.sock[s].pending THEN c
  ELSE LET c1 == [c EXCEPT !.sock[s].pending = FALSE, !.sock[s].waiter = 0]
       IN IF c.sock[s].waiter = 0 THEN c1
          ELSE Settle(c1, c.sock[s].waiter, "rejected", "connect")

FreeSocks(c) == {s \in Socks : c.sock[s].readyState = "none"}

\* connect(): nothing to do when connected with a socket; otherwise a new
\* WebSocket replaces this.ws and gets the four handlers.  waiter is the request
\* whose reject the caller chains to the returned promise (0: none).
WouldOpen(c) == ~(c.connected /\ c.ws # 0)
connect(c, waiter) ==
  IF ~WouldOpen(c) THEN c
  ELSE LET s == Min(FreeSocks(c))
       IN [c EXCEPT !.ws = s,
                    !.sock[s] = [readyState |-> "CONNECTING", pending |-> TRUE,
                                 waiter |-> waiter]]

\* WebSocket.send(): throws InvalidStateError on a socket that is CONNECTING,
\* transmits on one that is OPEN, discards silently on one that is CLOSING or
\* CLOSED.  Every call is logged with the state of the socket.
send(c, id) ==
  [c EXCEPT !.log = Append(@, [id |-> id, on |-> c.sock[c.ws].readyState]),
            !.exc = (c.sock[c.ws].readyState = "CONNECTING")]

\* processQueue(): shifts and sends on this.ws until the queue is empty or a
\* send throws.
RECURSIVE processQueue(_)
processQueue(c) ==
  IF ~c.connected \/ c.ws = 0 \/ c.messageQueue = <<>> THEN c
  ELSE LET c1 == send([c EXCEPT !.messageQueue = Tail(@)], Head(c.messageQueue))
       IN IF c1.exc THEN c1 ELSE processQueue(c1)

\* The handler that ran; of a response, its id and its success flag.  A
\* WebSocket that is closed and that this.ws does not name has no handler left
\* to run and is unreachable.
Forget(socks, ws) ==
  [s \in Socks |-> IF socks[s].readyState = "CLOSED" /\ ws # s THEN NoSock ELSE socks[s]]

Step(c, op, id, success) ==
  LET d == [c EXCEPT !.last = [op |-> op, id |-> id, success |-> success]]
  IN [d EXCEPT !.sock = Forget(@, d.ws)]

Begin == [tc EXCEPT !.exc = FALSE]

\* ws.onopen of socket s.  When processQueue throws, emit and resolve are not
\* reached.
WsOpen(s) ==
  /\ tc.sock[s].readyState = "CONNECTING"
  /\ LET c1 == [Begin EXCEPT !.sock[s].readyState = "OPEN", !.connected = TRUE,
                             !.reconnectAttempts = 0]
         c2 == processQueue(c1)
         c3 == IF c2.exc THEN c2
               ELSE [c2 EXCEPT !.sock[s].pending = FALSE, !.sock[s].waiter = 0]
     IN tc' = Step(c3, "event", 0, FALSE)
  /\ UNCHANGED <<core, conn>>

\* ws.onclose of socket s: connected = false, a reconnect timer while the
\* attempts are below the maximum, reject of the connect() promise.
onclose(c, s) ==
  LET c1 == [c EXCEPT !.sock[s].readyState = "CLOSED", !.connected = FALSE]
      c2 == IF c1.autoReconnect /\ c1.reconnectAttempts < maxReconnectAttempts
            THEN [c1 EXCEPT !.timers = @ + 1] ELSE c1
  IN RejectConnect(c2, s)

\* The model keeps at most MaxTimers reconnect timers pending.
TimerRoom == tc.timers < MaxTimers

\* The connection of socket s fails: ws.onerror rejects, then ws.onclose runs.
WsError(s) ==
  /\ tc.sock[s].readyState = "CONNECTING"
  /\ TimerRoom
  /\ tc' = Step(onclose(RejectConnect(Begin, s), s), "event", 0, FALSE)
  /\ UNCHANGED <<core, conn>>

\* The connection of socket s ends: closed by the server, lost, or the close
\* handshake that disconnect() began is over.
WsClose(s) ==
  /\ tc.sock[s].readyState \in {"OPEN", "CLOSING"}
  /\ TimerRoom
  /\ tc' = Step(onclose(Begin, s), "event", 0, FALSE)
  /\ UNCHANGED <<core, conn>>

\* A reconnect timer fires: reconnect().
Reconnect ==
  /\ tc.timers > 0
  /\ WouldOpen(tc) => FreeSocks(tc) # {}
  /\ LET c1 == [Begin EXCEPT !.timers = @ - 1, !.reconnectAttempts = @ + 1]
     IN tc' = Step(connect(c1, 0), "event", 0, FALSE)
  /\ UNCHANGED <<core, conn>>

\* The application calls connect().
Connect ==
  /\ WouldOpen(tc) => FreeSocks(tc) # {}
  /\ tc' = Step(connect([Begin EXCEPT !.manual = FALSE], 0), "event", 0, FALSE)
  /\ UNCHANGED <<core, conn>>

\* The application calls disconnect().
Disconnect ==
  /\ LET c1 == [Begin EXCEPT !.manual = TRUE]
         c2 == IF tc.ws = 0 THEN c1
               ELSE [c1 EXCEPT !.sock[tc.ws].readyState =
                                  IF @ \in {"CONNECTING", "OPEN"} THEN "CLOSING" ELSE @,
                               !.ws = 0, !.connected = FALSE]
     IN tc' = Step(c2, "event", 0, FALSE)
  /\ UNCHANGED <<core, conn>>

\* The application calls one of the request methods: sendRequest.  An exception
\* of send() inside the promise's executor rejects the promise.
SendRequest ==
  /\ tc.messageIdCounter < tc.reqs
  /\ ~tc.connected => FreeSocks(tc) # {}
  /\ LET id == tc.messageIdCounter + 1
         c1 == [Begin EXCEPT !.messageIdCounter = id, !.manual = FALSE,
                             !.pendingRequests = @ \cup {id},
                             !.promise[id] = [NoPromise EXCEPT !.state = "pending"]]
         c2 == IF c1.connected /\ c1.ws # 0
               THEN LET c3 == send(c1, id)
                    IN IF c3.exc THEN Settle(c3, id, "rejected", "send") ELSE c3
               ELSE LET c3 == [c1 EXCEPT !.messageQueue = Append(@, id)]
                    IN IF ~c3.connected THEN connect(c3, id) ELSE c3
     IN tc' = Step(c2, "event", 0, FALSE)
  /\ UNCHANGED <<core, conn>>

\* ws.onmessage of socket s delivers a response: handleResponse.  id 0 stands
\* for an id the client never issued.
pendingResponseKept(c, id, success) ==
  IF id \in c.pendingRequests
  THEN Settle(c, id, IF handleResponse([success |-> success]) = "resolve"
                     THEN "resolved" ELSE "rejected", "response")
  ELSE c

pendingResponse(c, id, success) ==
  IF id \in c.pendingRequests
  THEN Settle([c EXCEPT !.pendingRequests = @ \ {id}], id,
              IF handleResponse([success |-> success]) = "resolve"
              THEN "resolved" ELSE "rejected", "response")
  ELSE c

WsMessage(s, id, success) ==
  /\ tc.sock[s].readyState \in {"OPEN", "CLOSING"}
  /\ tc' = Step(pendingResponse(Begin, id, success), "handleResponse", id, success)
  /\ UNCHANGED <<core, conn>>

NextClient ==
  \/ Connect
  \/ Disconnect
  \/ SendRequest
  \/ Reconnect
  \/ \E s \in Socks : WsOpen(s)
  \/ \E s \in Socks : WsError(s)
  \/ \E s \in Socks : WsClose(s)
  \/ \E s \in Socks : \E id \in 0..tc.reqs : \E success \in BOOLEAN : WsMessage(s, id, success)

\* new TakosCallClient({ url, apiKey }): autoReconnect is on.  The application
\* connects, disconnects and issues requests as it likes.
InitClient ==
  /\ rooms = [r \in RoomIds |-> 0]
  /\ room = [o \in RoomObjs |-> NoRoom]
  /\ peer = [o \in PeerObjs |-> NoPeer]
  /\ eh = [h \in Handles |-> NoHandle]
  /\ calls = EmptyBag
  /\ draining = FALSE
  /\ faults = 0
  /\ cap = 0
  /\ emitted = <<>>
  /\ onRoom = <<>>
  /\ closes = <<>>
  /\ ret = NoRet
  /\ hist = NoHist
  /\ msg = 0
  /\ answer = Null
  /\ client = [ids |-> {}, kinds |-> {}, inflight |-> 0]
  /\ conn = NoConns
  /\ tc = [NoClient EXCEPT !.reqs = MaxClientReqs]

SpecClient == InitClient /\ [][NextClient]_vars

\* new TakosCallClient({ url, apiKey, autoReconnect: false }) of an application
\* that only issues requests: every socket is made by sendRequest.
InitRequests ==
  /\ rooms = [r \in RoomIds |-> 0]
  /\ room = [o \in RoomObjs |-> NoRoom]
  /\ peer = [o \in PeerObjs |-> NoPeer]
  /\ eh = [h \in Handles |-> NoHandle]
  /\ calls = EmptyBag
  /\ draining = FALSE
  /\ faults = 0
  /\ cap = 0
  /\ emitted = <<>>
  /\ onRoom = <<>>
  /\ closes = <<>>
  /\ ret = NoRet
  /\ hist = NoHist
  /\ msg = 0
  /\ answer = Null
  /\ client = [ids |-> {}, kinds |-> {}, inflight |-> 0]
  /\ conn = NoConns
  /\ tc = [NoClient EXCEPT !.reqs = MaxReqs, !.autoReconnect = FALSE]

NextRequests ==
  \/ SendRequest
  \/ \E s \in Socks : WsOpen(s)
  \/ \E s \in Socks : WsError(s)
  \/ \E s \in Socks : WsClose(s)
  \/ \E s \in Socks : \E id \in 0..tc.reqs : \E success \in BOOLEAN : WsMessage(s, id, success)

SpecRequests == InitRequests /\ [][NextRequests]_vars

\* ---- C33: the bound on automatic reconnection (SpecClient) --------------------
\* C33: reconnectAttempts, the number of automatic reconnection attempts made
\* since the last successful open, never exceeds maxReconnectAttempts.
C33_ReconnectAttemptsBounded == tc.reconnectAttempts <= maxReconnectAttempts

\* ---- C37: disconnect() and automatic reconnection (SpecClient) ----------------
\* C37: from a disconnect() until the next connect() or request of the
\* application, no reconnect timer is scheduled and no reconnect() runs.
C37_NoReconnectAfterDisconnect ==
  [][(tc.manual /\ tc'.manual) => tc'.timers = tc.timers]_vars

\* ---- C38: the queue of requests made while not connected (SpecClient) ---------
\* The ids that send() was called with, in the order of the calls.
Sent == [i \in 1..Len(tc.log) |-> tc.log[i].id]

\* C38: every send() is made on a socket that is OPEN; no request is sent twice;
\* requests are sent in the order they were issued; and every request issued
\* is either still in the queue or has been sent (none is dropped).
C38_QueuedRequestsSentOnceInOrder ==
  /\ \A i \in 1..Len(tc.log) : tc.log[i].on = "OPEN"
  /\ \A i, j \in 1..Len(tc.log) : i < j => Sent[i] < Sent[j]
  /\ \A r \in 1..tc.messageIdCounter :
        (\E i \in 1..Len(tc.messageQueue) : tc.messageQueue[i] = r)
           \/ (\E i \in 1..Len(tc.log) : Sent[i] = r)

\* ---- C39: a request rejected by a failed connect (SpecClient) -----------------
\* C39: a request whose promise was rejected because its connect() failed is
\* neither in the message queue nor in pendingRequests, and no later step
\* sends it.
C39_RejectedRequestWithdrawn ==
  /\ [](\A r \in ReqIds :
          (tc.promise[r].state = "rejected" /\ tc.promise[r].by = "connect") =>
             /\ r \notin tc.pendingRequests
             /\ \A i \in 1..Len(tc.messageQueue) : tc.messageQueue[i] # r)
  /\ [][\A r \in ReqIds :
          (tc.promise[r].state = "rejected" /\ tc.promise[r].by = "connect") =>
             \A i \in 1..Len(tc'.log) : i > Len(tc.log) => tc'.log[i].id # r]_vars

\* ---- C40: responses and request promises (SpecRequests) -----------------------
\* C40: a response whose id is in pendingRequests removes that entry and
\* settles that request's promise when it is still pending (resolved on
\* success, rejected otherwise); it touches no other entry and no other
\* promise; a response with any other id changes no entry and no promise; and
\* a promise that is settled is never settled again.
C40_ResponseSettlesItsRequest ==
  /\ [][tc'.last.op = "handleResponse" =>
          LET id == tc'.last.id
          IN /\ tc'.pendingRequests = tc.pendingRequests \ {id}
             /\ \A r \in ReqIds :
                  IF r = id /\ id \in tc.pendingRequests /\ tc.promise[r].state = "pending"
                  THEN tc'.promise[r] =
                         [state |-> IF tc'.last.success THEN "resolved" ELSE "rejected",
                          by |-> "response"]
                  ELSE tc'.promise[r] = tc.promise[r]]_vars
  /\ [][\A r \in ReqIds :
          tc.promise[r].state \in {"resolved", "rejected"} =>
             tc'.promise[r] = tc.promise[r]]_vars

\* Two requests were queued and sent on the socket that opened, and the
\* response to the second has just resolved it while the first is still pending.
C40_Witness ==
  /\ tc.last = [op |-> "handleResponse", id |-> 2, success |-> TRUE]
  /\ tc.log = <<[id |-> 1, on |-> "OPEN"], [id |-> 2, on |-> "OPEN"]>>
  /\ tc.promise[2] = [state |-> "resolved", by |-> "response"]
  /\ tc.promise[1].state = "pending" /\ tc.pendingRequests = {1}
====
